---- MODULE Spec2Model ----
(***************************************************************************)
(* A model of the GuardDog ingress worker: HMAC verification (hmac.ts),    *)
(* the per-shop token bucket (rateLimit.ts), the fail-open dispatcher      *)
(* (failOpen.ts) and the fetch handler that composes them (index.ts).      *)
(*                                                                         *)
(* Strings are TLA+ strings where the code only concatenates and compares  *)
(* them (shop, topic, store keys); byte arrays and the base64 header are   *)
(* sequences of numbers, so that encoding and decoding are computed.       *)
(***************************************************************************)
EXTENDS Integers, Sequences, FiniteSets, TLC

VARIABLES
    hm,            \* one call of verifyShopifyHmacRaw: its inputs and its result
    clock,         \* the time in whole seconds
    nticks,        \* how many times the clock has been advanced
    idempoKv,      \* env.IDEMPO_KV: key -> [val, hasExp, exp]
    uninstalledKv, \* env.UNINSTALLED_KV
    ledgerKv,      \* env.IDEMPOTENCY_LEDGER
    degradedKv,    \* env.DEGRADED_REQUESTS
    rl,            \* the direct calls of allowShop: slot -> locals and result
    rlStarted,     \* how many direct calls of allowShop have been made
    rlHist,        \* what the direct calls made so far were and returned
    fo,            \* the direct call of handleFailOpen and its forward function
    req,           \* the requests the fetch handler is given: id -> its state
    keyCheck       \* two (shop, topic, webhook id) triples and the keys built

vars == <<hm, clock, nticks, idempoKv, uninstalledKv, ledgerKv, degradedKv,
          rl, rlStarted, rlHist, fo, req, keyCheck>>

timeVars == <<clock, nticks>>
kvVars == <<idempoKv, uninstalledKv, ledgerKv, degradedKv>>
rlVars == <<rl, rlStarted, rlHist>>

\* null and undefined: of a string, and of a byte array or header string.
Null == "<null>"
NullSeq == <<-1>>

Min(a, b) == IF a <= b THEN a ELSE b
Max(a, b) == IF a >= b THEN a ELSE b

(***************************************************************************)
(* hmac.ts                                                                 *)
(***************************************************************************)

\* Bounds of the inputs of verifyShopifyHmacRaw.
MaxBodyLen == 2
MaxSecretLen == 1

\* The bytes bodies are made of: '{' and '}'; and secrets: 'k' and 's'.
BodyBytes == {123, 125}
SecretBytes == {107, 115}

SeqsUpTo(S, n) == UNION {[1..k -> S] : k \in 0..n}

Bodies == SeqsUpTo(BodyBytes, MaxBodyLen)
Secrets == SeqsUpTo(SecretBytes, MaxSecretLen)

\* The length in bytes of a SHA-256 digest.
MacLen == 32

\* crypto.subtle.sign("HMAC", key, rawBody): HMAC-SHA-256 as a keyed function
\* without collisions on the bounded inputs. The (secret, body) pair is laid out
\* as <<|secret|>> \o secret \o <<|body|>> \o body, padded with zeros to MacLen,
\* and every position goes through a bijection of the bytes.
HmacSha256(secret, body) ==
    LET x == <<Len(secret)>> \o secret \o <<Len(body)>> \o body
    IN  [i \in 1..MacLen |->
            ((IF i <= Len(x) THEN x[i] ELSE 0) * 37 + 11 * i + 5) % 256]

\* The symbols of a header string: 0..63 are the base64 alphabet (A-Z a-z 0-9 + /
\* by index), PadChar is '=', SpaceChar an ASCII whitespace, BadChar any
\* character outside the alphabet.
PadChar == 64
SpaceChar == 65
BadChar == 66

\* btoa(String.fromCharCode(...bytes)): three bytes give four symbols, a
\* last group of one or two bytes is padded with '='.
RECURSIVE btoa(_)
btoa(bytes) ==
    IF Len(bytes) = 0 THEN <<>>
    ELSE IF Len(bytes) = 1 THEN
        <<bytes[1] \div 4, (bytes[1] % 4) * 16, PadChar, PadChar>>
    ELSE IF Len(bytes) = 2 THEN
        <<bytes[1] \div 4,
          (bytes[1] % 4) * 16 + bytes[2] \div 16,
          (bytes[2] % 16) * 4,
          PadChar>>
    ELSE
        <<bytes[1] \div 4,
          (bytes[1] % 4) * 16 + bytes[2] \div 16,
          (bytes[2] % 16) * 4 + bytes[3] \div 64,
          bytes[3] % 64>> \o btoa(SubSeq(bytes, 4, Len(bytes)))

\* The decoding of the sextets of a base64 string whose padding is removed; the
\* bits left over in a last group of two or three symbols are dropped.
RECURSIVE DecodeSextets(_)
DecodeSextets(s) ==
    IF Len(s) <= 1 THEN <<>>
    ELSE IF Len(s) = 2 THEN <<s[1] * 4 + s[2] \div 16>>
    ELSE IF Len(s) = 3 THEN
        <<s[1] * 4 + s[2] \div 16, (s[2] % 16) * 16 + s[3] \div 4>>
    ELSE
        <<s[1] * 4 + s[2] \div 16,
          (s[2] % 16) * 16 + s[3] \div 4,
          (s[3] % 4) * 64 + s[4]>> \o DecodeSextets(SubSeq(s, 5, Len(s)))

\* atob(b64), the forgiving-base64 decode: ASCII whitespace is removed; when the
\* length is a multiple of four, one or two '=' at the end are removed; a length
\* of 1 modulo 4 or a symbol outside the alphabet is an InvalidCharacterError.
atob(b64) ==
    LET noWs  == SelectSeq(b64, LAMBDA c : c # SpaceChar)
        n     == Len(noWs)
        pads  == IF n % 4 = 0 /\ n >= 2 /\ noWs[n] = PadChar
                 THEN (IF noWs[n - 1] = PadChar THEN 2 ELSE 1)
                 ELSE 0
        data  == SubSeq(noWs, 1, n - pads)
        valid == /\ Len(data) % 4 # 1
                 /\ \A i \in 1..Len(data) : data[i] \in 0..63
    IN  IF valid THEN [ok |-> TRUE, bytes |-> DecodeSextets(data)]
        ELSE [ok |-> FALSE, bytes |-> <<>>]

\* base64ToBytes: the bytes of the decoded string, or an empty array when atob
\* throws.
base64ToBytes(b64) ==
    LET d == atob(b64)
    IN  [threw |-> FALSE, bytes |-> IF d.ok THEN d.bytes ELSE <<>>]

\* a ^ b and a | b on bytes, bit by bit.
RECURSIVE BitXor(_, _)
BitXor(a, b) ==
    IF a = 0 /\ b = 0 THEN 0
    ELSE (IF a % 2 = b % 2 THEN 0 ELSE 1) + 2 * BitXor(a \div 2, b \div 2)

RECURSIVE BitOr(_, _)
BitOr(a, b) ==
    IF a = 0 /\ b = 0 THEN 0
    ELSE (IF a % 2 = 1 \/ b % 2 = 1 THEN 1 ELSE 0) + 2 * BitOr(a \div 2, b \div 2)

\* A comparison that leaves the loop at the first differing byte.
RECURSIVE CompareEarlyExit(_, _, _, _)
CompareEarlyExit(sig, hdr, i, diff) ==
    IF i > Len(sig) THEN [diff |-> diff, steps |-> i - 1]
    ELSE IF sig[i] # hdr[i] THEN [diff |-> 1, steps |-> i]
    ELSE CompareEarlyExit(sig, hdr, i + 1, diff)

RECURSIVE BitAnd(_, _)
BitAnd(a, b) ==
    IF a = 0 \/ b = 0 THEN 0
    ELSE (IF a % 2 = 1 /\ b % 2 = 1 THEN 1 ELSE 0) + 2 * BitAnd(a \div 2, b \div 2)

\* The loop with diff &= in place of diff |=.
RECURSIVE CompareLoopAnd(_, _, _, _)
CompareLoopAnd(sig, hdr, i, diff) ==
    IF i > Len(sig) THEN [diff |-> diff, steps |-> i - 1]
    ELSE CompareLoopAnd(sig, hdr, i + 1, BitAnd(diff, BitXor(sig[i], hdr[i])))

\* for (let i = 0; i < sig.byteLength; i++) diff |= sig[i] ^ hdr[i], from
\* position i on: the final diff and the number of iterations made.
RECURSIVE CompareLoop(_, _, _, _)
CompareLoop(sig, hdr, i, diff) ==
    IF i > Len(sig) THEN [diff |-> diff, steps |-> i - 1]
    ELSE CompareLoop(sig, hdr, i + 1, BitOr(diff, BitXor(sig[i], hdr[i])))

\* The failures of the platform's cryptographic primitives.
CryptoFaults == {"none", "importKey", "sign"}

\* The body of the try block of verifyShopifyHmacRaw: importKey, sign, the
\* decoding of the header and the comparison. threw: an exception left the block.
VerifyTryBlock(rawBody, headerB64, secret, fault) ==
    IF fault # "none" THEN [threw |-> TRUE, value |-> FALSE, steps |-> 0]
    ELSE
        LET sig == HmacSha256(secret, rawBody)
            dec == base64ToBytes(headerB64)
            hdr == dec.bytes
        IN  IF dec.threw THEN [threw |-> TRUE, value |-> FALSE, steps |-> 0]
            ELSE IF Len(hdr) # Len(sig)
                THEN [threw |-> FALSE, value |-> FALSE, steps |-> 0]
            ELSE LET c == CompareLoop(sig, hdr, 1, 0)
                 IN  [threw |-> FALSE, value |-> (c.diff = 0), steps |-> c.steps]

\* verifyShopifyHmacRaw without the try/catch around the cryptography.
verifyNoCatch(rawBody, headerB64, secret, fault) ==
    IF headerB64 = NullSeq \/ secret = NullSeq THEN
        [threw |-> FALSE, value |-> FALSE, steps |-> 0]
    ELSE IF Len(headerB64) = 0 \/ Len(secret) = 0 \/ Len(rawBody) = 0 THEN
        [threw |-> FALSE, value |-> FALSE, steps |-> 0]
    ELSE VerifyTryBlock(rawBody, headerB64, secret, fault)

\* verifyShopifyHmacRaw without its length check before the loop: a byte
\* past the end of hdr reads as undefined, which ^ takes as 0.
verifyNoLengthCheck(rawBody, headerB64, secret, fault) ==
    IF headerB64 = NullSeq \/ secret = NullSeq THEN
        [threw |-> FALSE, value |-> FALSE, steps |-> 0]
    ELSE IF Len(headerB64) = 0 \/ Len(secret) = 0 \/ Len(rawBody) = 0 THEN
        [threw |-> FALSE, value |-> FALSE, steps |-> 0]
    ELSE IF fault # "none" THEN [threw |-> FALSE, value |-> FALSE, steps |-> 0]
    ELSE
        LET sig == HmacSha256(secret, rawBody)
            hdr == base64ToBytes(headerB64).bytes
            pad == [i \in 1..Len(sig) |-> IF i <= Len(hdr) THEN hdr[i] ELSE 0]
            c   == CompareLoop(sig, pad, 1, 0)
        IN  [threw |-> FALSE, value |-> (c.diff = 0), steps |-> c.steps]

\* verifyShopifyHmacRaw(rawBody, headerB64, secret): the guard on its first
\* line, then the try block, whose exceptions the catch turns into false.
\* A missing header or secret (null, undefined) is NullSeq.
verifyShopifyHmacRaw(rawBody, headerB64, secret, fault) ==
    IF headerB64 = NullSeq \/ secret = NullSeq THEN
        [threw |-> FALSE, value |-> FALSE, steps |-> 0]
    ELSE IF Len(headerB64) = 0 \/ Len(secret) = 0 \/ Len(rawBody) = 0 THEN
        [threw |-> FALSE, value |-> FALSE, steps |-> 0]
    ELSE
        LET r == VerifyTryBlock(rawBody, headerB64, secret, fault)
        IN  IF r.threw THEN [threw |-> FALSE, value |-> FALSE, steps |-> r.steps]
            ELSE r

\* The signature a sender holding `secret` puts in X-Shopify-Hmac-Sha256.
Sign(secret, body) == btoa(HmacSha256(secret, body))

\* The headers tried against the MAC of a signed (secret, body): its base64
\* form and the ways a header can differ from it.
HeaderKinds ==
    {"exact", "empty", "missing", "unpadded", "spaced", "badchar",
     "truncated", "extended", "flipfirst", "fliplast", "badlength"}

HeaderOf(kind, mac) ==
    LET sig == btoa(mac)
    IN  CASE kind = "exact"     -> sig
          [] kind = "empty"     -> <<>>
          [] kind = "missing"   -> NullSeq
          [] kind = "unpadded"  -> SubSeq(sig, 1, Len(sig) - 1)
          [] kind = "spaced"    -> <<SpaceChar>> \o sig
          [] kind = "badchar"   -> [sig EXCEPT ![2] = BadChar]
          [] kind = "truncated" -> btoa(SubSeq(mac, 1, Len(mac) - 1))
          [] kind = "extended"  -> btoa(mac \o <<7>>)
          [] kind = "flipfirst" -> [sig EXCEPT ![1] = (@ + 1) % 64]
          [] kind = "fliplast"  -> [sig EXCEPT ![Len(sig) - 2] = (@ + 1) % 64]
          [] kind = "badlength" -> SubSeq(sig, 1, Len(sig) - 3)

(***************************************************************************)
(* The key-value stores (KVNamespace)                                      *)
(***************************************************************************)

\* A stored string, by what the code can tell of it: "rec" is the JSON of a
\* {t, tokens} record, "marker" the string '1', "garbage" a string that is not
\* JSON, "body" a downstream response body; "absent" is get's null.
KvVal(kind, t, tokens) == [kind |-> kind, t |-> t, tokens |-> tokens]
Absent == KvVal("absent", 0, 0)
Marker == KvVal("marker", 0, 0)
Garbage == KvVal("garbage", 0, 0)

\* KVNamespace.get(key) at time now: the value, or null when the key was never
\* written or its expirationTtl has run out.
KvGet(kv, key, now) ==
    IF key \in DOMAIN kv /\ (kv[key].hasExp => now < kv[key].exp)
    THEN kv[key].val
    ELSE Absent

\* KVNamespace.put(key, value, {expirationTtl: ttl}) at time now.
KvPut(kv, key, val, ttl, now) ==
    [k \in DOMAIN kv \cup {key} |->
        IF k = key THEN [val |-> val, hasExp |-> TRUE, exp |-> now + ttl]
        ELSE kv[k]]

\* A put that lets the value expire a day after time 0.
KvPutOneDay(kv, key, val) ==
    [k \in DOMAIN kv \cup {key} |->
        IF k = key THEN [val |-> val, hasExp |-> TRUE, exp |-> 24 * 3600]
        ELSE kv[k]]

\* KVNamespace.put(key, value) without expiry.
KvPutForever(kv, key, val) ==
    [k \in DOMAIN kv \cup {key} |->
        IF k = key THEN [val |-> val, hasExp |-> FALSE, exp |-> 0]
        ELSE kv[k]]

\* A store that drops every entry that has a TTL as soon as time passes.
KvExpireAll(kv, now) ==
    [k \in {x \in DOMAIN kv : ~kv[x].hasExp} |-> kv[k]]

\* The store once the entries whose TTL has run out at time now are gone.
KvExpire(kv, now) ==
    [k \in {x \in DOMAIN kv : kv[x].hasExp => now < kv[x].exp} |-> kv[k]]

EmptyKv == [k \in {} |-> Absent]

(***************************************************************************)
(* failOpen.ts                                                             *)
(***************************************************************************)

\* The retention of a degraded-event record: 7 days.
DegradedTtl == 86400 * 7

\* A Response: status, body, headers ("name=value") and whether the body has
\* been read (bodyUsed).
Response(status, body, hdrs) ==
    [status |-> status, body |-> body, hdrs |-> hdrs, used |-> FALSE]

\* Bodies: a plain text, the JSON a downstream service answered, or the
\* FailOpenResponse JSON.
TextBody(text) ==
    [kind |-> "text", text |-> text, advice |-> "", degraded |-> FALSE,
     reason |-> <<>>, cid |-> ""]
DownstreamBody(text) ==
    [kind |-> "downstream", text |-> text, advice |-> "", degraded |-> FALSE,
     reason |-> <<>>, cid |-> ""]
DegradedBody(reason, cid) ==
    [kind |-> "failopen", text |-> "", advice |-> "APPROVE", degraded |-> TRUE,
     reason |-> reason, cid |-> cid]

NoResponse == Response(0, TextBody(""), {})

\* A thrown value: whether it is an Error, and its message as words.
Thrown(isError, msg) == [isError |-> isError, msg |-> msg]
NoError == Thrown(FALSE, <<>>)

\* new Error(`Request timeout after ${timeoutMs}ms`)
TimerError(timeoutMs) ==
    Thrown(TRUE, <<"Request", "timeout", "after", ToString(timeoutMs) \o "ms">>)

\* What a forward function can reject with or throw: a network error, an
\* error of its own that speaks of a timeout, a value that is not an Error.
ForwardErrors ==
    {Thrown(TRUE, <<"Network", "error">>),
     Thrown(TRUE, <<"upstream", "connect", "timeout">>),
     Thrown(FALSE, <<"timeout">>)}

\* error.message.includes('timeout')
IncludesTimeout(msg) == \E i \in 1..Len(msg) : msg[i] = "timeout"

\* reason: error instanceof Error && error.message.includes('timeout')
\*   ? `Scoring API timeout after ${timeoutMs}ms` : 'Scoring API error - fail-open'
DegradedReason(err, timeoutMs) ==
    IF err.isError /\ IncludesTimeout(err.msg)
    THEN <<"Scoring", "API", "timeout", "after", ToString(timeoutMs) \o "ms">>
    ELSE <<"Scoring", "API", "error", "-", "fail-open">>

\* The locals of a call of handleFailOpen(fetchPromise, timeoutMs, env) that
\* has armed its timer and awaits the race. cid is its own crypto.randomUUID().
HfoStart(timeoutMs, cid) ==
    [pc |-> "race", timeoutMs |-> timeoutMs, cid |-> cid, timer |-> "armed",
     outcome |-> "pending", err |-> NoError, resp |-> NoResponse,
     puts |-> 0, putFailed |-> FALSE, threw |-> FALSE]

HfoOff == [HfoStart(0, "") EXCEPT !.pc = "off", !.timer = "off"]

\* A dispatcher whose catch block rethrows what the forward function threw.
HfoRejectedRethrow(d, err) ==
    IF d.outcome # "pending" THEN d
    ELSE [d EXCEPT !.outcome = "degraded", !.err = err, !.pc = "done",
                   !.threw = TRUE]

\* A dispatcher that writes an event record for every call, also when the
\* forward function won the race.
HfoResolvedAudited(d, resp) ==
    IF d.outcome # "pending" THEN d
    ELSE [d EXCEPT !.outcome = "succeeded", !.resp = resp, !.pc = "done",
                   !.puts = @ + 1]

\* A race that its loser can still win: a response that arrives after the
\* catch block has begun replaces the outcome.
HfoResolvedLate(d, resp) ==
    [d EXCEPT !.outcome = "succeeded", !.resp = resp, !.pc = "done"]

\* The forward function resolved with resp: if the race is still open, it
\* is won, and handleFailOpen returns resp as it is.
HfoResolved(d, resp) ==
    IF d.outcome # "pending" THEN d
    ELSE [d EXCEPT !.outcome = "succeeded", !.resp = resp, !.pc = "done"]

\* The forward function rejected or threw, or the timer rejected: if the race is
\* still open, the catch block runs up to its await of the put.
HfoRejected(d, err) ==
    IF d.outcome # "pending" THEN d
    ELSE [d EXCEPT !.outcome = "degraded", !.err = err, !.pc = "degradedPut"]

\* A timer whose callback does not reject the timeout promise.
HfoTimerIgnored(d) == [d EXCEPT !.timer = "fired"]

\* setTimeout's callback runs.
HfoTimerFired(d) ==
    HfoRejected([d EXCEPT !.timer = "fired"], TimerError(d.timeoutMs))

\* new Response(JSON.stringify(degradedResponse), { status: 200, headers })
DegradedResponse(d) ==
    Response(200, DegradedBody(DegradedReason(d.err, d.timeoutMs), d.cid),
             {"Content-Type=application/json", "X-Correlation-ID=" \o d.cid,
              "X-Degraded=true", "X-Processing-Time"})

\* `degraded:${correlationId}`
DegradedKey(d) == "degraded:" \o d.cid

\* The value written to DEGRADED_REQUESTS.
DegradedRecord == KvVal("degraded", 0, 0)

\* A dispatcher without the inner try/catch: a failed put of the record
\* rejects the call.
HfoAfterPutStrict(d, putOk) ==
    IF putOk
    THEN [d EXCEPT !.pc = "done", !.resp = DegradedResponse(d), !.puts = @ + 1]
    ELSE [d EXCEPT !.pc = "done", !.puts = @ + 1, !.putFailed = TRUE,
                   !.threw = TRUE]

\* The put of the degraded-event record settled, with success or not (the inner
\* catch logs a failure and goes on): handleFailOpen returns the degraded
\* response.
HfoAfterPut(d, putOk) ==
    [d EXCEPT !.pc = "done", !.resp = DegradedResponse(d), !.puts = @ + 1,
              !.putFailed = ~putOk]

(***************************************************************************)
(* rateLimit.ts                                                            *)
(***************************************************************************)

\* Token amounts are whole numbers of 1/TokenUnit of a token, so that
\* fractions of a token are kept between calls.
TokenUnit == 2
\* burst is drawn from 1..MaxBurst tokens.
MaxBurst == 2
\* Date.now() of a call may lag the store's time by up to MaxSkew seconds.
MaxSkew == 1
\* How often the clock is advanced.
MaxTicks == 2
\* The direct calls of allowShop that are made: enough to empty a bucket and
\* be denied; two of them can be in progress at once.
MaxRlCalls == MaxBurst + 1
RlSlots == {1, 2}

\* The default of ttlSeconds.
DefaultTtl == 3600

\* Two tenants.
RlShop == "a.shop"
OtherShop == "b.shop"


\* const key = `rl:${shop}`
\* One bucket key for all the tenants.
RlKeyShared(shop) == "rl:"

RlKey(shop) == "rl:" \o shop

\* raw ? JSON.parse(raw) as Rec : { t: nowSec, tokens: burst }, with rec.t ?? 0
\* and rec.tokens ?? burst applied: a value that parses to something without
\* the two fields (the string '1') gives t = 0 and tokens = burst; a value that
\* is not JSON makes JSON.parse throw.
RlParse(raw, nowSec, burst) ==
    CASE raw.kind = "absent"  -> [threw |-> FALSE, t |-> nowSec, tokens |-> burst]
      [] raw.kind = "rec"     -> [threw |-> FALSE, t |-> raw.t, tokens |-> raw.tokens]
      [] raw.kind = "garbage" -> [threw |-> TRUE, t |-> 0, tokens |-> 0]
      [] OTHER                -> [threw |-> FALSE, t |-> 0, tokens |-> burst]

\* The refill without the clamp of elapsed at 0.
RlRefillNoClamp(rec, nowSec, burst, refill) ==
    Min(burst, rec.tokens + (nowSec - rec.t) * refill)

\* The refill without the cap at burst.
RlRefillNoCap(rec, nowSec, burst, refill) ==
    rec.tokens + Max(0, nowSec - rec.t) * refill

\* const elapsed = Math.max(0, nowSec - rec.t);
\* const tokens = Math.min(burst, rec.tokens + elapsed * refillPerSec);
RlRefill(rec, nowSec, burst, refill) ==
    Min(burst, rec.tokens + Max(0, nowSec - rec.t) * refill)

\* The consumption with tokens >= 0 in place of tokens >= 1.
RlConsumeOffByOne(tokens) ==
    [allowed |-> tokens >= 0,
     newTokens |-> IF tokens >= 0 THEN tokens - TokenUnit ELSE tokens]

\* A consumption that takes two tokens for an allowed request.
RlConsumeDouble(tokens) ==
    [allowed |-> tokens >= TokenUnit,
     newTokens |-> IF tokens >= TokenUnit THEN tokens - 2 * TokenUnit ELSE tokens]

\* const allowed = tokens >= 1; const newTokens = allowed ? tokens - 1 : tokens;
RlConsume(tokens) ==
    [allowed |-> tokens >= TokenUnit,
     newTokens |-> IF tokens >= TokenUnit THEN tokens - TokenUnit ELSE tokens]

\* A catch block that denies the request.
RlCatchDeny == FALSE

\* catch (error) { ...; return true; }
RlCatchResult == TRUE

\* The locals of a call of allowShop(env, shop, burst, refillPerSec, ttl) that
\* has read nowSec and is about to await env.IDEMPO_KV.get(key).
RlEnter(shop, burst, refill, ttl, nowSec) ==
    [pc |-> "get", shop |-> shop, burst |-> burst, refill |-> refill,
     ttl |-> ttl, nowSec |-> nowSec, raw |-> Absent, tokens |-> 0,
     allowed |-> FALSE, newTokens |-> 0, result |-> FALSE,
     getFailed |-> FALSE, parseFailed |-> FALSE, putFailed |-> FALSE,
     gets |-> 0, puts |-> 0]

RlIdle == [RlEnter("", 0, 0, 0, 0) EXCEPT !.pc = "idle"]

\* The call once env.IDEMPO_KV.get(key) has settled: rejected (getOk false), or
\* resolved with raw; then the parse, the refill and the decision, up to the
\* await of the put.
RlAfterGet(c, getOk, raw) ==
    LET rec == RlParse(raw, c.nowSec, c.burst)
        tokens == RlRefill(rec, c.nowSec, c.burst, c.refill)
        use == RlConsume(tokens)
    IN  IF ~getOk THEN
            [c EXCEPT !.pc = "done", !.result = RlCatchResult,
                      !.getFailed = TRUE, !.gets = @ + 1]
        ELSE IF rec.threw THEN
            [c EXCEPT !.pc = "done", !.result = RlCatchResult,
                      !.parseFailed = TRUE, !.gets = @ + 1, !.raw = raw]
        ELSE
            [c EXCEPT !.pc = "put", !.raw = raw, !.tokens = tokens,
                      !.allowed = use.allowed, !.newTokens = use.newTokens,
                      !.gets = @ + 1]

\* Whether the call went through its catch block.
RlFailed(c) == c.getFailed \/ c.parseFailed \/ c.putFailed

\* A record that keeps the tokens counted before the consumption.
RlNextUnconsumed(c) == KvVal("rec", c.nowSec, c.tokens)

\* const next: Rec = { t: nowSec, tokens: newTokens }
RlNext(c) == KvVal("rec", c.nowSec, c.newTokens)

\* The call once the put has settled: return allowed, or true from the catch.
RlAfterPut(c, putOk) ==
    IF putOk THEN [c EXCEPT !.pc = "done", !.result = c.allowed, !.puts = @ + 1]
    ELSE [c EXCEPT !.pc = "done", !.result = RlCatchResult, !.putFailed = TRUE]

(***************************************************************************)
(* index.ts: the fetch handler                                             *)
(***************************************************************************)

\* env.APP_SECRET, and a secret that is not the worker's.
AppSecret == <<107>>
ForeignSecret == <<115>>

\* allowShop(env, shop, 30, 2)
HandlerBurst == 30
HandlerRefill == 2
\* handleFailOpen(..., 500, env)
HandlerTimeoutMs == 500
\* A retention of one hour.
IdemTtlOneHour == 1 * 3600

\* { expirationTtl: 72 * 3600 }
IdemTtl == 72 * 3600

\* A request: its method, the five Shopify headers (Null or NullSeq when the
\* header is not there) and its body.
HReq(method, shop, topic, webhookId, hmac, apiVersion, body) ==
    [method |-> method, shop |-> shop, topic |-> topic, webhookId |-> webhookId,
     hmac |-> hmac, apiVersion |-> apiVersion, body |-> body]

\* A check of the headers that leaves the api version out.
MissingHeadersNoApiVersion(in) ==
    \/ in.shop \in {Null, ""}
    \/ in.topic \in {Null, ""}
    \/ in.webhookId \in {Null, ""}
    \/ in.hmac \in {NullSeq, <<>>}

\* !shop || !topic || !webhookId || !hmac || !apiVersion
MissingHeaders(in) ==
    \/ in.shop \in {Null, ""}
    \/ in.topic \in {Null, ""}
    \/ in.webhookId \in {Null, ""}
    \/ in.hmac \in {NullSeq, <<>>}
    \/ in.apiVersion \in {Null, ""}

\* The text responses of the handler.
MethodNotAllowed == Response(405, TextBody("Method not allowed"), {})
MissingRequiredHeaders == Response(400, TextBody("Missing required headers"), {})
Unauthorized == Response(401, TextBody("Unauthorized"), {})
Ok == Response(200, TextBody("OK"), {})
RateLimited == Response(429, TextBody("Rate limited"), {})
Replay == Response(200, TextBody("OK"), {"X-Idempotency-Replay=true"})
InvalidJson == Response(400, TextBody("Invalid JSON"), {})

\* An object without fields.
NoFields == [k \in {} |-> ""]

\* The locals of a call of fetch(request, env, ctx): where it is (pc), the
\* request, correlationId, hmacValid, what the reads gave (disabled, seen),
\* whether the key was reserved and the body parsed, the call of allowShop
\* (rlc), the call of handleFailOpen (d), the forward function (fwd) and the
\* response fetch() gave it (down), the response returned (resp), whether the
\* catch block ran, and the operations issued so far (log). For the record:
\* the requests that had been answered when this one arrived (after), the
\* times at which its idempotency read and reservation settled, and whether
\* a primitive of crypto.subtle failed in its verification (faulted).
HNew(in, cid) ==
    [pc |-> "new", in |-> in, cid |-> cid, hmacValid |-> FALSE,
     disabled |-> FALSE, seen |-> FALSE, reserved |-> FALSE, parsed |-> FALSE,
     rlc |-> RlIdle, d |-> HfoOff, fwd |-> "off", down |-> NoResponse,
     sent |-> NoFields, resp |-> NoResponse, caught |-> FALSE, log |-> <<>>,
     after |-> {}, checkedAt |-> -1, reservedAt |-> -1, faulted |-> FALSE]

\* return resp
HReturn(q, resp) == [q EXCEPT !.pc = "done", !.resp = resp]

\* A handler without the top-level catch: the exception leaves fetch().
HCatchRethrow(q) == [q EXCEPT !.pc = "rejected", !.caught = TRUE]

\* catch (error) { ...; return new Response('OK', { status: 200 }); }
HCatch(q) == HReturn([q EXCEPT !.caught = TRUE], Ok)

\* The handler issues the operation op and awaits it.
HIssue(q, op) == [q EXCEPT !.pc = op, !.log = Append(@, op)]

\* The method and header checks, up to the await of request.arrayBuffer().
HEnter(q) ==
    IF q.in.method # "POST" THEN HReturn(q, MethodNotAllowed)
    ELSE IF MissingHeaders(q.in) THEN HReturn(q, MissingRequiredHeaders)
    ELSE HIssue(q, "readBody")

\* request.arrayBuffer() settled: verifyShopifyHmacRaw is called.
HAfterReadBody(q, ok) == IF ok THEN HIssue(q, "verify") ELSE HCatch(q)

\* A handler that goes on when the signature does not verify.
HAfterVerifyIgnored(q, v) ==
    IF v.threw THEN HCatch(q)
    ELSE IF q.in.topic = "app/uninstalled"
         THEN HIssue([q EXCEPT !.hmacValid = v.value], "uninstPut")
         ELSE HIssue([q EXCEPT !.hmacValid = v.value], "uninstGet")

\* A handler without the branch for topic app/uninstalled.
HAfterVerifyNoUninstall(q, v) ==
    IF v.threw THEN HCatch(q)
    ELSE IF ~v.value THEN HReturn(q, Unauthorized)
    ELSE HIssue([q EXCEPT !.hmacValid = TRUE], "uninstGet")

\* A handler that takes a signature only for the shop it knows.
HAfterVerifyOneShop(q, v) ==
    IF v.threw THEN HCatch(q)
    ELSE IF ~v.value \/ q.in.shop # RlShop THEN HReturn(q, Unauthorized)
    ELSE IF q.in.topic = "app/uninstalled"
         THEN HIssue([q EXCEPT !.hmacValid = TRUE], "uninstPut")
         ELSE HIssue([q EXCEPT !.hmacValid = TRUE], "uninstGet")

\* verifyShopifyHmacRaw settled with v: 401, or the put of the disabled marker
\* for topic app/uninstalled, or the read of the tenant's marker.
HAfterVerify(q, v) ==
    IF v.threw THEN HCatch(q)
    ELSE IF ~v.value THEN HReturn(q, Unauthorized)
    ELSE IF q.in.topic = "app/uninstalled"
         THEN HIssue([q EXCEPT !.hmacValid = TRUE], "uninstPut")
         ELSE HIssue([q EXCEPT !.hmacValid = TRUE], "uninstGet")

\* env.UNINSTALLED_KV.put(shop, '1') settled.
HAfterUninstPut(q, ok) == IF ok THEN HReturn(q, Ok) ELSE HCatch(q)

\* A test that takes every value read for false.
TruthyNever(val) == FALSE

\* What JavaScript takes for true of the result of a KV get.
Truthy(val) == val.kind # "absent"

\* A handler that takes no notice of the tenant's marker.
HAfterUninstGetIgnored(q, ok, val, now) ==
    IF ~ok THEN HCatch(q)
    ELSE HIssue([q EXCEPT !.disabled = Truthy(val),
                          !.rlc = RlEnter(q.in.shop, HandlerBurst * TokenUnit,
                                          HandlerRefill * TokenUnit, DefaultTtl,
                                          now)],
                "rlGet")

\* A handler that checks for duplicates without asking the rate limiter.
HAfterUninstGetNoLimit(q, ok, val, now) ==
    IF ~ok THEN HCatch(q)
    ELSE IF Truthy(val) THEN HReturn([q EXCEPT !.disabled = TRUE], Ok)
    ELSE HIssue(q, "idemGet")

\* env.UNINSTALLED_KV.get(shop) settled with val: 200 for a disabled tenant,
\* else allowShop(env, shop, 30, 2) is called at time now.
HAfterUninstGet(q, ok, val, now) ==
    IF ~ok THEN HCatch(q)
    ELSE IF Truthy(val) THEN HReturn([q EXCEPT !.disabled = TRUE], Ok)
    ELSE HIssue([q EXCEPT !.rlc = RlEnter(q.in.shop, HandlerBurst * TokenUnit,
                                          HandlerRefill * TokenUnit, DefaultTtl,
                                          now)],
                "rlGet")

\* A handler that goes on when allowShop denied.
HAfterAllowIgnored(q) == HIssue(q, "idemGet")

\* allowShop returned: 429 when it denied, else the idempotency read.
HAfterAllow(q) ==
    IF ~q.rlc.result THEN HReturn(q, RateLimited) ELSE HIssue(q, "idemGet")

\* The get of allowShop settled.
HAfterRlGet(q, getOk, raw) ==
    LET q2 == [q EXCEPT !.rlc = RlAfterGet(@, getOk, raw)]
    IN  IF q2.rlc.pc = "done" THEN HAfterAllow(q2) ELSE HIssue(q2, "rlPut")

\* The put of allowShop settled.
HAfterRlPut(q, putOk) == HAfterAllow([q EXCEPT !.rlc = RlAfterPut(@, putOk)])

\* const idempotencyKey = `${shop}::${topic}::${webhookId}`
IdemKey(in) == in.shop \o "::" \o in.topic \o "::" \o in.webhookId

\* A handler that treats a key it has seen as fresh.
HAfterIdemGetIgnored(q, ok, val) ==
    IF ~ok THEN HCatch(q)
    ELSE HIssue([q EXCEPT !.seen = Truthy(val)], "idemPut")

\* env.IDEMPO_KV.get(idempotencyKey) settled with val: the replay response for
\* a key that is there, else the put of the reservation.
HAfterIdemGet(q, ok, val) ==
    IF ~ok THEN HCatch(q)
    ELSE IF Truthy(val) THEN HReturn([q EXCEPT !.seen = TRUE], Replay)
    ELSE HIssue(q, "idemPut")

\* The bodies of the requests: {} and {, of which JSON.parse takes the first,
\* and {"shop":"x"}, an object with a field named as one the handler sets.
ValidBody == <<123, 125>>
InvalidBody == <<123>>
FieldsBody == <<123, 34, 115, 104, 111, 112, 34, 58, 34, 120, 34, 125>>

\* new TextDecoder().decode(bytes), for bytes that are lower-case letters.
Letters ==
    <<"a", "b", "c", "d", "e", "f", "g", "h", "i", "j", "k", "l", "m", "n", "o",
      "p", "q", "r", "s", "t", "u", "v", "w", "x", "y", "z">>
RECURSIVE Decode(_)
Decode(bytes) ==
    IF bytes = <<>> THEN ""
    ELSE (IF Head(bytes) \in 97..122 THEN Letters[Head(bytes) - 96] ELSE "?")
         \o Decode(Tail(bytes))

\* JSON.parse of the decoded body, for the objects {} and {"key":"value"} with
\* key and value free of quotes and escapes; anything else is a syntax error.
JsonMembers(bytes) ==
    LET n == Len(bytes)
        Plain(a, b) == \A i \in a..b : bytes[i] \notin {34, 92}
    IN  {[key |-> SubSeq(bytes, 3, i - 1), val |-> SubSeq(bytes, i + 3, n - 2)] :
            i \in {i \in 3..(n - 5) :
                     /\ bytes[1] = 123 /\ bytes[2] = 34 /\ Plain(3, i - 1)
                     /\ bytes[i] = 34 /\ bytes[i + 1] = 58 /\ bytes[i + 2] = 34
                     /\ Plain(i + 3, n - 2)
                     /\ bytes[n - 1] = 34 /\ bytes[n] = 125}}
JsonParse(bytes) ==
    IF bytes = <<123, 125>> THEN [threw |-> FALSE, fields |-> NoFields]
    ELSE IF JsonMembers(bytes) = {} THEN [threw |-> TRUE, fields |-> NoFields]
    ELSE LET mem == CHOOSE x \in JsonMembers(bytes) : TRUE
         IN  [threw |-> FALSE,
              fields |-> [k \in {Decode(mem.key)} |-> Decode(mem.val)]]

\* const scoringRequest = { shop, topic, webhook_id: webhookId, api_version:
\* apiVersion, triggered_at: new Date().toISOString(), correlation_id:
\* correlationId, ...webhookData }: a field of the body replaces the field of
\* the same name written before the spread.
ScoringRequest(shop, topic, webhookId, apiVersion, correlationId, webhookData) ==
    LET own == [shop |-> shop, topic |-> topic, webhook_id |-> webhookId,
                api_version |-> apiVersion, triggered_at |-> "now",
                correlation_id |-> correlationId]
    IN  [k \in DOMAIN own \cup DOMAIN webhookData |->
            IF k \in DOMAIN webhookData THEN webhookData[k] ELSE own[k]]

\* The correlationId of the handler and the one of its call of handleFailOpen:
\* two calls of crypto.randomUUID().
HandlerCid(r) == "h" \o ToString(r)
DispatchCid(cid) == "f" \o cid

\* A handler that goes on to the downstream call when the put of the
\* reservation failed.
HAfterIdemPutLenient(q, ok) ==
    LET q1 == [q EXCEPT !.reserved = ok, !.log = Append(@, "parse")]
    IN  IF JsonParse(q.in.body).threw THEN HReturn(q1, InvalidJson)
        ELSE [q1 EXCEPT !.parsed = TRUE, !.pc = "dispatch",
                        !.sent = ScoringRequest(q.in.shop, q.in.topic,
                                     q.in.webhookId, q.in.apiVersion, q.cid,
                                     JsonParse(q.in.body).fields),
                        !.d = HfoStart(HandlerTimeoutMs, DispatchCid(q.cid)),
                        !.fwd = "fetch", !.log = Append(@, "fetch")]

\* env.IDEMPO_KV.put(idempotencyKey, '1', ttl) settled: the body is parsed, and
\* if that works handleFailOpen is called, which arms its timer and calls the
\* forward function, which calls fetch(env.SCORING_API + '/score').
HAfterIdemPut(q, ok) ==
    IF ~ok THEN HCatch(q)
    ELSE LET q1 == [q EXCEPT !.reserved = TRUE, !.log = Append(@, "parse")]
         IN  IF JsonParse(q.in.body).threw THEN HReturn(q1, InvalidJson)
             ELSE [q1 EXCEPT !.parsed = TRUE, !.pc = "dispatch",
                             !.sent = ScoringRequest(q.in.shop, q.in.topic,
                                          q.in.webhookId, q.in.apiVersion, q.cid,
                                          JsonParse(q.in.body).fields),
                             !.d = HfoStart(HandlerTimeoutMs, DispatchCid(q.cid)),
                             !.fwd = "fetch", !.log = Append(@, "fetch")]

\* The forward function returns response.
FwdResolve(q) == [q EXCEPT !.fwd = "resolved", !.d = HfoResolved(@, q.down)]

\* The forward function rejects with err.
FwdReject(q, err) == [q EXCEPT !.fwd = "rejected", !.d = HfoRejected(@, err)]

\* fetch() resolved with resp: for status 200 the body is read, else the
\* response is returned.
FwdAfterFetch(q, resp) ==
    IF resp.status = 200 THEN [q EXCEPT !.down = resp, !.fwd = "text"]
    ELSE FwdResolve([q EXCEPT !.down = resp])

\* response.text() resolved: env.IDEMPOTENCY_LEDGER.put is called.
FwdAfterText(q) ==
    [q EXCEPT !.down.used = TRUE, !.fwd = "ledgerPut",
              !.log = Append(@, "ledgerPut")]

\* What a failed KV operation rejects with.
KvError == Thrown(TRUE, <<"KV", "put", "failed">>)

\* env.IDEMPOTENCY_LEDGER.put(idempotencyKey, responseBody, ttl) settled.
FwdAfterLedgerPut(q, ok) == IF ok THEN FwdResolve(q) ELSE FwdReject(q, KvError)

\* The value written to IDEMPOTENCY_LEDGER.
LedgerRecord == KvVal("body", 0, 0)

\* handleFailOpen returned scoringResponse: with status 200 its body is read,
\* else it is returned as it is.
HAfterDispatch(q) ==
    IF q.d.resp.status = 200 THEN HIssue(q, "text") ELSE HReturn(q, q.d.resp)

\* scoringResponse.text() settled: it rejects when the body was read before;
\* else the body is returned in a new Response with the handler's headers.
HAfterText(q) ==
    IF q.d.resp.used THEN HCatch(q)
    ELSE HReturn(q, Response(200, q.d.resp.body,
                             {"Content-Type=application/json",
                              "X-Correlation-ID=" \o q.cid, "X-Processing-Time"}))

\* The requests the handler is given: validly signed ones, and ones with a
\* single thing wrong. RlShop is an enabled tenant; OtherShop uninstalled the
\* app earlier.
ApiVersion == "2025-01"

Signed(shop, topic, webhookId, body) ==
    HReq("POST", shop, topic, webhookId, Sign(AppSecret, body), ApiVersion, body)

ValidRequests ==
    {Signed(RlShop, "orders/create", "w1", ValidBody),
     Signed(RlShop, "orders/create", "w2", InvalidBody),
     Signed(RlShop, "app/uninstalled", "w3", ValidBody),
     Signed(OtherShop, "orders/create", "w1", ValidBody)}

BaseRequest == Signed(RlShop, "orders/create", "w1", ValidBody)

FaultyRequests ==
    {[BaseRequest EXCEPT !.method = "GET"],
     [BaseRequest EXCEPT !.method = "GET", !.shop = Null, !.hmac = NullSeq],
     [BaseRequest EXCEPT !.shop = Null],
     [BaseRequest EXCEPT !.shop = ""],
     [BaseRequest EXCEPT !.topic = Null],
     [BaseRequest EXCEPT !.webhookId = Null],
     [BaseRequest EXCEPT !.hmac = NullSeq],
     [BaseRequest EXCEPT !.apiVersion = Null],
     [BaseRequest EXCEPT !.hmac = Sign(ForeignSecret, ValidBody)],
     [BaseRequest EXCEPT !.hmac = Sign(AppSecret, InvalidBody)],
     [BaseRequest EXCEPT !.hmac = HeaderOf("badchar", HmacSha256(AppSecret, ValidBody))],
     [BaseRequest EXCEPT !.topic = "app/uninstalled",
                         !.hmac = Sign(ForeignSecret, ValidBody)],
     [BaseRequest EXCEPT !.body = <<>>, !.hmac = Sign(AppSecret, <<>>)]}

Requests == ValidRequests \cup FaultyRequests

\* The requests are handled as Reqs; a request not yet made is HIdle.
Reqs == {1, 2}
HIdle == HNew(BaseRequest, "")

(***************************************************************************)
(* The parts of the state a specification leaves unused                    *)
(***************************************************************************)

\* fo: the dispatcher's locals d, the state of the forward function's promise
\* fwd, what ended the race (cause), and how many direct calls were made.
FoIdle ==
    [d |-> HfoOff, fwd |-> "off", cause |-> "none", calls |-> 0,
     res |-> NoResponse]

\* No direct call of handleFailOpen is made.
FoOff == fo = FoIdle

\* The fetch handler is given no request.
ReqOff == req = [r \in Reqs |-> HIdle]

(***************************************************************************)
(* The direct calls of allowShop (SpecRL)                                  *)
(***************************************************************************)

\* No direct call of allowShop is made.
RlOff ==
    /\ rl = [s \in RlSlots |-> RlIdle]
    /\ rlStarted = 0
    /\ rlHist = [cfg |-> [burst |-> 0, refill |-> 0, ttl |-> 0], first |-> Absent,
                 results |-> <<>>, nows |-> {}, overlap |-> FALSE, failed |-> FALSE]

\* No keys are being compared.
KeyTriple(shop, topic, webhookId) ==
    [shop |-> shop, topic |-> topic, webhookId |-> webhookId]
KeyIdle ==
    [pc |-> "off", a |-> KeyTriple("", "", ""), b |-> KeyTriple("", "", ""),
     tenant |-> "", keyA |-> "", keyB |-> "", rlKey |-> ""]
KeysOff == keyCheck = KeyIdle

\* The parameters the direct calls of one behaviour are made with.
\* refillPerSec is none, the smallest fraction of a token, or two tokens (the
\* default rate).
RlConfigs ==
    [burst : {b * TokenUnit : b \in 1..MaxBurst},
     refill : {0, 1, 2 * TokenUnit},
     ttl : {DefaultTtl}]

\* What the store can hold under the shop's bucket key when the calls begin:
\* nothing, an empty bucket written by an earlier call, one written by a
\* worker whose clock is ahead, or a value put there by something else.
RlInitialVals(now) ==
    {Absent, Garbage, Marker, KvVal("rec", now, 0), KvVal("rec", now + MaxSkew, 0)}

HmIdle ==
    [pc |-> "off", signedBody |-> <<>>, signSecret |-> <<>>, rawBody |-> <<>>,
     secret |-> <<>>, kind |-> "exact", headerB64 |-> <<>>, fault |-> "none",
     threw |-> FALSE, value |-> FALSE, steps |-> 0]

Entry(val, exp) == [val |-> val, hasExp |-> TRUE, exp |-> exp]

\* rlHist: the configuration, what the key held at first, the results of the
\* finished calls in order, the nowSec the calls read, and whether two calls
\* overlapped or a store operation failed.
RlInit ==
    /\ hm = HmIdle
    /\ KeysOff
    /\ FoOff
    /\ ReqOff
    /\ clock = 0
    /\ nticks = 0
    /\ uninstalledKv = EmptyKv
    /\ ledgerKv = EmptyKv
    /\ degradedKv = EmptyKv
    /\ rl = [s \in RlSlots |-> RlIdle]
    /\ rlStarted = 0
    /\ \E cfg \in RlConfigs, first \in RlInitialVals(0) :
        /\ idempoKv =
               [k \in {RlKey(OtherShop)} \cup
                       (IF first = Absent THEN {} ELSE {RlKey(RlShop)}) |->
                   IF k = RlKey(OtherShop)
                   THEN Entry(KvVal("rec", 0, cfg.burst - TokenUnit), cfg.ttl)
                   ELSE Entry(first, cfg.ttl)]
        /\ rlHist = [cfg |-> cfg, first |-> first, results |-> <<>>,
                     nows |-> {}, overlap |-> FALSE, failed |-> FALSE]

InFlight == {s \in RlSlots : rl[s].pc \in {"get", "put"}}

\* A caller invokes allowShop: nowSec = Math.floor(Date.now() / 1000) is read.
\* The second slot is used when the first is busy.
RlCall(s) ==
    /\ rl[s].pc \in {"idle", "done"}
    /\ \A s2 \in RlSlots : s2 < s => rl[s2].pc \in {"get", "put"}
    /\ rlStarted < MaxRlCalls
    /\ rl' = [rl EXCEPT ![s] =
            RlEnter(RlShop, rlHist.cfg.burst, rlHist.cfg.refill, rlHist.cfg.ttl,
                    clock)]
    /\ rlHist' = [rlHist EXCEPT !.nows = @ \cup {clock},
                                !.overlap = @ \/ InFlight # {}]
    /\ rlStarted' = rlStarted + 1
    /\ UNCHANGED <<hm, keyCheck, timeVars, kvVars, fo, req>>

\* await env.IDEMPO_KV.get(key) settles.
RlGet(s) ==
    /\ rl[s].pc = "get"
    /\ \E getOk \in BOOLEAN :
        LET c == RlAfterGet(rl[s], getOk, KvGet(idempoKv, RlKey(rl[s].shop), clock))
        IN  /\ rl' = [rl EXCEPT ![s] = c]
            /\ rlHist' = [rlHist EXCEPT
                    !.failed = @ \/ RlFailed(c),
                    !.results = IF c.pc = "done" THEN Append(@, c.result) ELSE @]
    /\ UNCHANGED <<hm, keyCheck, timeVars, kvVars, rlStarted, fo, req>>

\* await env.IDEMPO_KV.put(key, JSON.stringify(next), {expirationTtl}) settles.
RlPut(s) ==
    /\ rl[s].pc = "put"
    /\ \E putOk \in BOOLEAN :
        LET c == RlAfterPut(rl[s], putOk)
        IN  /\ rl' = [rl EXCEPT ![s] = c]
            /\ idempoKv' =
                   IF putOk
                   THEN KvPut(idempoKv, RlKey(c.shop), RlNext(c), c.ttl, clock)
                   ELSE idempoKv
            /\ rlHist' = [rlHist EXCEPT
                    !.failed = @ \/ RlFailed(c),
                    !.results = Append(@, c.result)]
    /\ UNCHANGED <<hm, keyCheck, timeVars, uninstalledKv, ledgerKv, degradedKv, rlStarted,
                   fo, req>>

\* A second passes.
RlAdvance ==
    /\ nticks < MaxTicks
    /\ clock' = clock + 1
    /\ idempoKv' = KvExpire(idempoKv, clock + 1)
    /\ nticks' = nticks + 1
    /\ UNCHANGED <<hm, keyCheck, rlVars, uninstalledKv, ledgerKv, degradedKv, fo, req>>

RlNextStep ==
    \/ \E s \in RlSlots : RlCall(s) \/ RlGet(s) \/ RlPut(s)
    \/ RlAdvance

SpecRL == RlInit /\ [][RlNextStep]_vars

(***************************************************************************)
(* The calls of verifyShopifyHmacRaw on bounded inputs                     *)
(***************************************************************************)

HmInit ==
    /\ \E signedBody \in Bodies \ {<<>>}, signSecret \in Secrets \ {<<>>},
       body \in Bodies, secret \in Secrets \cup {NullSeq}, kind \in HeaderKinds :
        hm = [pc |-> "call",
              signedBody |-> signedBody, signSecret |-> signSecret,
              rawBody |-> body, secret |-> secret, kind |-> kind,
              headerB64 |-> HeaderOf(kind, HmacSha256(signSecret, signedBody)),
              fault |-> "none", threw |-> FALSE, value |-> FALSE, steps |-> 0]
    /\ clock = 0
    /\ nticks = 0
    /\ idempoKv = EmptyKv
    /\ uninstalledKv = EmptyKv
    /\ ledgerKv = EmptyKv
    /\ degradedKv = EmptyKv
    /\ RlOff
    /\ FoOff
    /\ ReqOff
    /\ KeysOff

\* One call of verifyShopifyHmacRaw on the drawn inputs, under each behaviour of
\* the cryptographic primitives.
HmVerify ==
    /\ hm.pc = "call"
    /\ \E fault \in CryptoFaults :
        LET r == verifyShopifyHmacRaw(hm.rawBody, hm.headerB64, hm.secret, fault)
        IN  hm' = [hm EXCEPT !.pc = "done", !.fault = fault, !.threw = r.threw,
                            !.value = r.value, !.steps = r.steps]
    /\ UNCHANGED <<timeVars, kvVars, rlVars, fo, req, keyCheck>>

HmNextStep == HmVerify

SpecHmac == HmInit /\ [][HmNextStep]_vars

(***************************************************************************)
(* The direct calls of handleFailOpen (SpecFailOpen)                       *)
(***************************************************************************)

\* The direct calls of handleFailOpen that are made, one after the other.
MaxFoCalls == 2

\* timeoutMs: none, a short one, the default.
FoTimeouts == {0, 50, 500}

\* The statuses a forward function resolves with.
FoStatuses == {200, 500}

FoInit ==
    /\ hm = HmIdle
    /\ KeysOff
    /\ RlOff
    /\ ReqOff
    /\ clock = 0
    /\ nticks = 0
    /\ idempoKv = EmptyKv
    /\ uninstalledKv = EmptyKv
    /\ ledgerKv = EmptyKv
    /\ degradedKv = EmptyKv
    /\ fo = FoIdle

\* handleFailOpen(fetchPromise, timeoutMs, env) is called: the timer is armed
\* and fetchPromise() is invoked, which returns a promise or throws at once.
FoCall ==
    /\ fo.d.pc \in {"off", "done"}
    /\ fo.calls < MaxFoCalls
    /\ \E timeoutMs \in FoTimeouts, sync \in {NoError} \cup ForwardErrors :
        LET d == HfoStart(timeoutMs, "f" \o ToString(fo.calls + 1))
        IN  fo' = IF sync = NoError
                  THEN [d |-> d, fwd |-> "pending", cause |-> "none",
                        calls |-> fo.calls + 1, res |-> NoResponse]
                  ELSE [d |-> HfoRejected(d, sync), fwd |-> "threw",
                        cause |-> "forward", calls |-> fo.calls + 1,
                        res |-> NoResponse]
    /\ UNCHANGED <<hm, keyCheck, timeVars, kvVars, rlVars, req>>

\* The promise of the forward function resolves with a response.
FoForwardResolve ==
    /\ fo.fwd = "pending"
    /\ \E status \in FoStatuses :
        fo' = [fo EXCEPT
                  !.d = HfoResolved(@, Response(status, DownstreamBody("score"),
                                                {"Content-Type=application/json"})),
                  !.res = Response(status, DownstreamBody("score"),
                                   {"Content-Type=application/json"}),
                  !.fwd = "resolved",
                  !.cause = IF fo.d.outcome = "pending" THEN "resolved" ELSE @]
    /\ UNCHANGED <<hm, keyCheck, timeVars, kvVars, rlVars, req>>

\* The promise of the forward function rejects.
FoForwardReject ==
    /\ fo.fwd = "pending"
    /\ \E err \in ForwardErrors :
        fo' = [fo EXCEPT
                  !.d = HfoRejected(@, err),
                  !.fwd = "rejected",
                  !.cause = IF fo.d.outcome = "pending" THEN "forward" ELSE @]
    /\ UNCHANGED <<hm, keyCheck, timeVars, kvVars, rlVars, req>>

\* The deadline timer fires.
FoTimer ==
    /\ fo.d.timer = "armed"
    /\ fo' = [fo EXCEPT
                  !.d = HfoTimerFired(@),
                  !.cause = IF fo.d.outcome = "pending" THEN "timer" ELSE @]
    /\ UNCHANGED <<hm, keyCheck, timeVars, kvVars, rlVars, req>>

\* await env.DEGRADED_REQUESTS.put(...) settles, with success or not.
FoDegradedPut ==
    /\ fo.d.pc = "degradedPut"
    /\ \E putOk \in BOOLEAN :
        /\ degradedKv' = IF putOk
                         THEN KvPut(degradedKv, DegradedKey(fo.d),
                                    DegradedRecord, DegradedTtl, clock)
                         ELSE degradedKv
        /\ fo' = [fo EXCEPT !.d = HfoAfterPut(@, putOk)]
    /\ UNCHANGED <<hm, keyCheck, timeVars, idempoKv, uninstalledKv, ledgerKv, rlVars, req>>

FoNextStep ==
    \/ FoCall
    \/ FoForwardResolve
    \/ FoForwardReject
    \/ FoTimer
    \/ FoDegradedPut

SpecFailOpen == FoInit /\ [][FoNextStep]_vars

(***************************************************************************)
(* The worker: requests handled by fetch (Spec)                            *)
(***************************************************************************)

\* The statuses the downstream service answers with.
DownstreamStatuses == {200, 500}

\* The response of the downstream service with the given status.
DownstreamResponse(status) ==
    Response(status, DownstreamBody("score"), {"Content-Type=application/json"})

\* What fetch() rejects with: an error that speaks of a timeout or one that
\* does not.
FetchErrors ==
    {Thrown(TRUE, <<"Network", "error">>),
     Thrown(TRUE, <<"upstream", "connect", "timeout">>)}

\* What the bucket key of RlShop holds when the requests begin: nothing, or an
\* empty bucket left by earlier requests.
InitialBuckets == {Absent, KvVal("rec", 0, 0)}

Init ==
    /\ hm = HmIdle
    /\ KeysOff
    /\ RlOff
    /\ FoOff
    /\ clock = 0
    /\ nticks = 0
    /\ ledgerKv = EmptyKv
    /\ degradedKv = EmptyKv
    /\ \E bucket \in InitialBuckets :
        idempoKv = [k \in (IF bucket = Absent THEN {} ELSE {RlKey(RlShop)}) |->
                       Entry(bucket, DefaultTtl)]
    /\ uninstalledKv = KvPutForever(EmptyKv, OtherShop, Marker)
    /\ req = [r \in Reqs |-> HIdle]

\* What no action of the handler changes.
hFrame == <<hm, timeVars, rlVars, fo, keyCheck>>

\* A request arrives: fetch(request, env, ctx) runs up to its first await.
HStart(r) ==
    /\ req[r].pc = "new"
    /\ \A r2 \in Reqs : r2 < r => req[r2].pc # "new"
    /\ \E in \in Requests :
        req' = [req EXCEPT ![r] =
                   [HEnter(HNew(in, HandlerCid(r))) EXCEPT
                       !.after = {r2 \in Reqs : req[r2].pc = "done"}]]
    /\ UNCHANGED <<hFrame, kvVars>>

\* await request.arrayBuffer() settles.
HReadBody(r) ==
    /\ req[r].pc = "readBody"
    /\ \E ok \in BOOLEAN : req' = [req EXCEPT ![r] = HAfterReadBody(@, ok)]
    /\ UNCHANGED <<hFrame, kvVars>>

\* await verifyShopifyHmacRaw(rawBody, hmac, env.APP_SECRET) settles.
HVerify(r) ==
    /\ req[r].pc = "verify"
    /\ \E fault \in CryptoFaults :
        req' = [req EXCEPT ![r] =
                   [HAfterVerify(@, verifyShopifyHmacRaw(req[r].in.body,
                                        req[r].in.hmac, AppSecret, fault))
                       EXCEPT !.faulted = fault # "none"]]
    /\ UNCHANGED <<hFrame, kvVars>>

\* await env.UNINSTALLED_KV.put(shop, '1') settles.
HUninstPut(r) ==
    /\ req[r].pc = "uninstPut"
    /\ \E ok \in BOOLEAN :
        /\ req' = [req EXCEPT ![r] = HAfterUninstPut(@, ok)]
        /\ uninstalledKv' = IF ok
                            THEN KvPutForever(uninstalledKv, req[r].in.shop, Marker)
                            ELSE uninstalledKv
    /\ UNCHANGED <<hFrame, idempoKv, ledgerKv, degradedKv>>

\* await env.UNINSTALLED_KV.get(shop) settles.
HUninstGet(r) ==
    /\ req[r].pc = "uninstGet"
    /\ \E ok \in BOOLEAN :
        req' = [req EXCEPT ![r] =
                   HAfterUninstGet(@, ok, KvGet(uninstalledKv, req[r].in.shop, clock),
                                   clock)]
    /\ UNCHANGED <<hFrame, kvVars>>

\* The get of the handler's call of allowShop settles.
HRlGet(r) ==
    /\ req[r].pc = "rlGet"
    /\ \E getOk \in BOOLEAN :
        req' = [req EXCEPT ![r] =
                   HAfterRlGet(@, getOk,
                               KvGet(idempoKv, RlKey(req[r].in.shop), clock))]
    /\ UNCHANGED <<hFrame, kvVars>>

\* The put of the handler's call of allowShop settles.
HRlPut(r) ==
    /\ req[r].pc = "rlPut"
    /\ \E putOk \in BOOLEAN :
        /\ req' = [req EXCEPT ![r] = HAfterRlPut(@, putOk)]
        /\ idempoKv' = IF putOk
                       THEN KvPut(idempoKv, RlKey(req[r].in.shop), RlNext(req[r].rlc),
                                  req[r].rlc.ttl, clock)
                       ELSE idempoKv
    /\ UNCHANGED <<hFrame, uninstalledKv, ledgerKv, degradedKv>>

\* await env.IDEMPO_KV.get(idempotencyKey) settles.
HIdemGet(r) ==
    /\ req[r].pc = "idemGet"
    /\ \E ok \in BOOLEAN :
        req' = [req EXCEPT ![r] =
                   [HAfterIdemGet(@, ok, KvGet(idempoKv, IdemKey(req[r].in), clock))
                       EXCEPT !.checkedAt = clock]]
    /\ UNCHANGED <<hFrame, kvVars>>

\* await env.IDEMPO_KV.put(idempotencyKey, '1', ttl) settles.
HIdemPut(r) ==
    /\ req[r].pc = "idemPut"
    /\ \E ok \in BOOLEAN :
        /\ req' = [req EXCEPT ![r] =
                      [HAfterIdemPut(@, ok) EXCEPT !.reservedAt = clock]]
        /\ idempoKv' = IF ok
                       THEN KvPut(idempoKv, IdemKey(req[r].in), Marker, IdemTtl, clock)
                       ELSE idempoKv
    /\ UNCHANGED <<hFrame, uninstalledKv, ledgerKv, degradedKv>>

\* The downstream service answers: fetch() resolves.
HFetchResolve(r) ==
    /\ req[r].fwd = "fetch"
    /\ \E status \in DownstreamStatuses :
        req' = [req EXCEPT ![r] = FwdAfterFetch(@, DownstreamResponse(status))]
    /\ UNCHANGED <<hFrame, kvVars>>

\* The downstream service cannot be reached: fetch() rejects.
HFetchReject(r) ==
    /\ req[r].fwd = "fetch"
    /\ \E err \in FetchErrors : req' = [req EXCEPT ![r] = FwdReject(@, err)]
    /\ UNCHANGED <<hFrame, kvVars>>

\* await response.text() of the forward function settles.
HFwdText(r) ==
    /\ req[r].fwd = "text"
    /\ req' = [req EXCEPT ![r] = FwdAfterText(@)]
    /\ UNCHANGED <<hFrame, kvVars>>

\* await env.IDEMPOTENCY_LEDGER.put(...) of the forward function settles.
HFwdLedgerPut(r) ==
    /\ req[r].fwd = "ledgerPut"
    /\ \E ok \in BOOLEAN :
        /\ req' = [req EXCEPT ![r] = FwdAfterLedgerPut(@, ok)]
        /\ ledgerKv' = IF ok
                       THEN KvPut(ledgerKv, IdemKey(req[r].in), LedgerRecord,
                                  IdemTtl, clock)
                       ELSE ledgerKv
    /\ UNCHANGED <<hFrame, idempoKv, uninstalledKv, degradedKv>>

\* The deadline timer of the request's dispatch fires while the race is open.
HTimer(r) ==
    /\ req[r].d.timer = "armed"
    /\ req[r].d.outcome = "pending"
    /\ req' = [req EXCEPT ![r].d = HfoTimerFired(@)]
    /\ UNCHANGED <<hFrame, kvVars>>

\* await env.DEGRADED_REQUESTS.put(...) of the dispatch settles.
HDegradedPut(r) ==
    /\ req[r].d.pc = "degradedPut"
    /\ \E ok \in BOOLEAN :
        /\ degradedKv' = IF ok
                         THEN KvPut(degradedKv, DegradedKey(req[r].d),
                                    DegradedRecord, DegradedTtl, clock)
                         ELSE degradedKv
        /\ req' = [req EXCEPT ![r].d = HfoAfterPut(@, ok)]
    /\ UNCHANGED <<hFrame, idempoKv, uninstalledKv, ledgerKv>>

\* await handleFailOpen(...) settles in the handler.
HDispatched(r) ==
    /\ req[r].pc = "dispatch"
    /\ req[r].d.pc = "done"
    /\ req' = [req EXCEPT ![r] = HAfterDispatch(@)]
    /\ UNCHANGED <<hFrame, kvVars>>

\* await scoringResponse.text() settles in the handler.
HText(r) ==
    /\ req[r].pc = "text"
    /\ req' = [req EXCEPT ![r] = HAfterText(@)]
    /\ UNCHANGED <<hFrame, kvVars>>

\* The times the clock is moved to while no request is being handled: the
\* last second of the retention of a key reserved at time 0, and its end.
HTimes == {IdemTtl - 1, IdemTtl}

\* Time passes between one request and the next; what has expired is gone.
HAdvance ==
    /\ \A r \in Reqs : req[r].pc \in {"new", "done"}
    /\ \E r \in Reqs : req[r].pc = "done"
    /\ \E r \in Reqs : req[r].pc = "new"
    /\ \E t \in HTimes :
        /\ t > clock
        /\ clock' = t
        /\ idempoKv' = KvExpire(idempoKv, t)
        /\ uninstalledKv' = KvExpire(uninstalledKv, t)
        /\ ledgerKv' = KvExpire(ledgerKv, t)
        /\ degradedKv' = KvExpire(degradedKv, t)
    /\ nticks' = nticks + 1
    /\ UNCHANGED <<hm, keyCheck, rlVars, fo, req>>

Next ==
    \/ HAdvance
    \/ \E r \in Reqs :
        \/ HStart(r)
        \/ HReadBody(r)
        \/ HVerify(r)
        \/ HUninstPut(r)
        \/ HUninstGet(r)
        \/ HRlGet(r)
        \/ HRlPut(r)
        \/ HIdemGet(r)
        \/ HIdemPut(r)
        \/ HFetchResolve(r)
        \/ HFetchReject(r)
        \/ HFwdText(r)
        \/ HFwdLedgerPut(r)
        \/ HTimer(r)
        \/ HDegradedPut(r)
        \/ HDispatched(r)
        \/ HText(r)

Spec == Init /\ [][Next]_vars

(***************************************************************************)
(* The keys of IDEMPO_KV: the idempotency key of the handler and the       *)
(* bucket key of allowShop, built for header values that are not empty.    *)
(***************************************************************************)

\* Header values: short strings of a letter and the colon, and a value that
\* begins as a bucket key does. Shops also include a value with separators.
KeyParts == {"a", ":", "a:", ":a", "::", "rl:a"}
KeyShops == KeyParts \cup {"a::a::a"}
KeyTriples ==
    {KeyTriple(shop, topic, webhookId) :
        shop \in KeyParts, topic \in KeyParts, webhookId \in KeyParts}

KeyInit ==
    /\ hm = HmIdle
    /\ RlOff
    /\ FoOff
    /\ ReqOff
    /\ clock = 0
    /\ nticks = 0
    /\ idempoKv = EmptyKv
    /\ uninstalledKv = EmptyKv
    /\ ledgerKv = EmptyKv
    /\ degradedKv = EmptyKv
    /\ \E a \in KeyTriples, b \in KeyTriples :
        keyCheck = [KeyIdle EXCEPT !.pc = "input", !.a = a, !.b = b]

\* The handler builds the idempotency keys of the two deliveries, and
\* allowShop the bucket key of a tenant.
KeyBuild ==
    /\ keyCheck.pc = "input"
    /\ \E tenant \in KeyShops :
        keyCheck' = [keyCheck EXCEPT !.pc = "built", !.tenant = tenant,
                                     !.keyA = IdemKey(keyCheck.a),
                                     !.keyB = IdemKey(keyCheck.b),
                                     !.rlKey = RlKey(tenant)]
    /\ UNCHANGED <<hm, timeVars, kvVars, rlVars, fo, req>>

KeyNextStep == KeyBuild

SpecKeys == KeyInit /\ [][KeyNextStep]_vars

(***************************************************************************)
(* One request, with the scheduling the runtime gives: a timer that was    *)
(* set fires, a store operation settles, and a continuation whose promise  *)
(* has settled runs. Nothing makes the downstream service answer.          *)
(***************************************************************************)

\* A validly signed request whose body has a field named shop.
FieldRequests == {Signed(RlShop, "orders/create", "w1", FieldsBody)}

\* The request arrives: fetch(request, env, ctx) runs up to its first await.
HArrive ==
    /\ req[1].pc = "new"
    /\ \E in \in Requests \cup FieldRequests :
        req' = [req EXCEPT ![1] = HEnter(HNew(in, HandlerCid(1)))]
    /\ UNCHANGED <<hFrame, kvVars>>

LiveNext ==
    \/ HArrive
    \/ HReadBody(1)
    \/ HVerify(1)
    \/ HUninstPut(1)
    \/ HUninstGet(1)
    \/ HRlGet(1)
    \/ HRlPut(1)
    \/ HIdemGet(1)
    \/ HIdemPut(1)
    \/ HFetchResolve(1)
    \/ HFetchReject(1)
    \/ HFwdText(1)
    \/ HFwdLedgerPut(1)
    \/ HTimer(1)
    \/ HDegradedPut(1)
    \/ HDispatched(1)
    \/ HText(1)

\* The timer fires; the store operations settle; the continuations of
\* handleFailOpen and of the handler run. fetch() and the read of the
\* downstream body are left without fairness: they may never settle.
LiveFairness ==
    /\ WF_vars(HTimer(1))
    /\ WF_vars(HUninstPut(1))
    /\ WF_vars(HUninstGet(1))
    /\ WF_vars(HRlGet(1))
    /\ WF_vars(HRlPut(1))
    /\ WF_vars(HIdemGet(1))
    /\ WF_vars(HIdemPut(1))
    /\ WF_vars(HFwdLedgerPut(1))
    /\ WF_vars(HDegradedPut(1))
    /\ WF_vars(HDispatched(1))
    /\ WF_vars(HText(1))

SpecLive == Init /\ [][LiveNext]_vars /\ LiveFairness

(***************************************************************************)
(* Properties of verifyShopifyHmacRaw (SpecHmac)                           *)
(***************************************************************************)

\* C4: with the secret the signature was made with and the signature's exact
\* base64 form as the header, and no failure of the cryptographic primitives,
\* the result is true for the signed body and false for every other body.
C4_SignatureRoundTrip ==
    (hm.pc = "done" /\ hm.fault = "none" /\ hm.kind = "exact"
        /\ hm.secret = hm.signSecret)
    => (~hm.threw /\ (hm.value <=> hm.rawBody = hm.signedBody))

C4_Witness ==
    /\ hm.pc = "done" /\ hm.fault = "none" /\ hm.kind = "exact"
    /\ hm.secret = hm.signSecret /\ hm.rawBody = hm.signedBody
    /\ hm.value

\* C5: the call never throws, and its result is false when the header is
\* missing or empty, the secret is missing or empty, the body is empty, the
\* header is not valid base64, the decoded header has another length than the
\* MAC, or importKey or sign fails.
C5_FalseNeverThrows ==
    hm.pc = "done" =>
        /\ ~hm.threw
        /\ (\/ hm.kind \in {"empty", "missing"}
            \/ hm.secret \in {<<>>, NullSeq}
            \/ hm.rawBody = <<>>
            \/ hm.kind \in {"badchar", "badlength"}
            \/ hm.kind \in {"truncated", "extended"}
            \/ hm.fault # "none") => ~hm.value

C5_Witness ==
    /\ hm.pc = "done" /\ hm.fault = "sign" /\ hm.kind = "exact"
    /\ hm.secret = hm.signSecret /\ hm.rawBody = hm.signedBody
    /\ ~hm.value /\ ~hm.threw

(***************************************************************************)
(* Properties of allowShop (SpecRL)                                        *)
(***************************************************************************)

\* The calls made so far started from an absent record, did not overlap, all
\* read the same nowSec and met no store failure.
RlCleanRun ==
    /\ rlHist.first = Absent
    /\ ~rlHist.overlap
    /\ ~rlHist.failed
    /\ Cardinality(rlHist.nows) <= 1

\* C8: from an absent record, with a working store and no elapsed time, the
\* i-th of a sequence of non-overlapping calls is allowed exactly when
\* i <= burst: the first burst calls are allowed, call burst + 1 is denied.
C8_BurstThenDeny ==
    RlCleanRun =>
        \A i \in 1..Len(rlHist.results) :
            rlHist.results[i] <=> (i * TokenUnit <= rlHist.cfg.burst)

C8_Witness ==
    /\ RlCleanRun
    /\ Len(rlHist.results) = rlHist.cfg.burst \div TokenUnit + 1
    /\ ~rlHist.results[Len(rlHist.results)]
    /\ rlHist.results[rlHist.cfg.burst \div TokenUnit]

\* The calls that returned from the try block with a {t, tokens} record read.
RlDecided == {s \in RlSlots : rl[s].pc = "done" /\ ~RlFailed(rl[s])
                                /\ rl[s].raw.kind = "rec"}

\* C9: a call that read the record {t, tokens} at nowSec decides on
\* min(burst, tokens + max(0, nowSec - t) * refillPerSec) tokens: it is
\* allowed exactly when that is at least one token and writes that amount
\* less the token consumed; a stored t later than nowSec adds nothing.
C9_RefillFormula ==
    \A s \in RlDecided :
        LET c == rl[s]
            waited == IF c.nowSec > c.raw.t THEN c.nowSec - c.raw.t ELSE 0
            grown == c.raw.tokens + waited * c.refill
            pre == IF grown > c.burst THEN c.burst ELSE grown
        IN  /\ c.result <=> pre >= TokenUnit
            /\ c.newTokens = (IF c.result THEN pre - TokenUnit ELSE pre)
            /\ c.raw.t > c.nowSec =>
                   c.newTokens + (IF c.result THEN TokenUnit ELSE 0)
                       = Min(c.burst, c.raw.tokens)

C9_Witness ==
    \E s \in RlDecided :
        /\ rl[s].nowSec > rl[s].raw.t
        /\ rl[s].raw.tokens < TokenUnit
        /\ rl[s].result

\* C10: a call in which the store read or the store write failed, or the
\* stored value did not parse, returns true.
C10_FailOpen ==
    \A s \in RlSlots :
        (rl[s].pc = "done"
            /\ (rl[s].getFailed \/ rl[s].putFailed \/ rl[s].raw.kind = "garbage"))
        => rl[s].result

C10_Witness ==
    \E s \in RlSlots :
        /\ rl[s].pc = "done" /\ rl[s].putFailed
        /\ ~rl[s].allowed /\ rl[s].result

(***************************************************************************)
(* Properties of handleFailOpen (SpecFailOpen)                             *)
(***************************************************************************)

\* C2: a call of handleFailOpen whose forward function rejected or threw, or
\* had not resolved when the deadline timer fired, does not reject; it goes on
\* to its catch block and returns a response of status 200 whose body has
\* degraded = true and advice = 'APPROVE'.
C2_DegradedOnFailure ==
    fo.cause \in {"forward", "timer"} =>
        /\ ~fo.d.threw
        /\ fo.d.pc \in {"degradedPut", "done"}
        /\ fo.d.pc = "done" =>
               /\ fo.d.resp.status = 200
               /\ fo.d.resp.body.degraded
               /\ fo.d.resp.body.advice = "APPROVE"

C2_Witness ==
    /\ fo.cause = "timer" /\ fo.fwd = "pending" /\ fo.d.pc = "done"
    /\ fo.d.resp.status = 200 /\ fo.d.resp.body.degraded

(***************************************************************************)
(* Properties of the fetch handler (Spec)                                  *)
(***************************************************************************)

\* The handler of q has issued the operation op.
Issued(q, op) == \E i \in 1..Len(q.log) : q.log[i] = op

\* The operation the handler of q issued last.
LastIssued(q) == q.log[Len(q.log)]

\* C1: the status of every response the handler returns is one of 200, 400,
\* 401, 405 and 429, whatever the stores and the downstream service do.
C1_StatusSet ==
    \A r \in Reqs :
        req[r].pc = "done" => req[r].resp.status \in {200, 400, 401, 405, 429}

\* The operations of a request up to its downstream call, in order; the put
\* of allowShop is not there when its get failed.
StagesToFetch ==
    {<<"readBody", "verify", "uninstGet", "rlGet", "rlPut", "idemGet",
       "idemPut", "parse", "fetch">>,
     <<"readBody", "verify", "uninstGet", "rlGet", "idemGet", "idemPut",
       "parse", "fetch">>}

\* C3: the downstream call of a request is made only after, in this order,
\* its signature verified, its topic was found not to be app/uninstalled, its
\* tenant was read as not disabled, the rate limiter allowed it, its key was
\* read as absent and reserved, and its body parsed; a request that a stage
\* stopped has that stage's response and made no downstream call.
C3_ForwardOnlyAfterAllStages ==
    \A r \in Reqs :
        LET q == req[r]
        IN  /\ Issued(q, "fetch") =>
                /\ q.hmacValid
                /\ q.in.topic # "app/uninstalled"
                /\ ~q.disabled
                /\ q.rlc.pc = "done" /\ q.rlc.result
                /\ ~q.seen /\ q.reserved
                /\ q.parsed
                /\ \E stages \in StagesToFetch :
                       SubSeq(q.log, 1, Len(stages)) = stages
            /\ (q.pc = "done" /\ ~q.caught /\ ~Issued(q, "fetch")) =>
                /\ q.fwd = "off" /\ q.d = HfoOff
                /\ IF q.log = <<>>
                   THEN q.resp \in {MethodNotAllowed, MissingRequiredHeaders}
                   ELSE CASE LastIssued(q) = "verify" ->
                                 ~q.hmacValid /\ q.resp = Unauthorized
                          [] LastIssued(q) = "uninstPut" ->
                                 q.in.topic = "app/uninstalled" /\ q.resp = Ok
                          [] LastIssued(q) = "uninstGet" ->
                                 q.disabled /\ q.resp = Ok
                          [] LastIssued(q) = "rlPut" ->
                                 ~q.rlc.result /\ q.resp = RateLimited
                          [] LastIssued(q) = "idemGet" ->
                                 q.seen /\ q.resp = Replay
                          [] LastIssued(q) = "parse" ->
                                 ~q.parsed /\ q.resp = InvalidJson
                          [] OTHER -> FALSE

C3_Witness ==
    \E r1, r2 \in Reqs :
        /\ req[r1].pc = "done" /\ Issued(req[r1], "fetch")
        /\ req[r2].pc = "done" /\ req[r2].resp = Replay

\* C6: a POST request with all five headers whose signature verification gave
\* false is answered 401, and the handler has done nothing but read the body
\* and verify: no parse, no store operation, no call of allowShop, no dispatch.
C6_UnverifiedIsRejected ==
    \A r \in Reqs :
        LET q == req[r]
        IN  (Issued(q, "verify") /\ q.pc # "verify" /\ ~q.hmacValid) =>
                /\ q.pc = "done"
                /\ q.resp.status = 401
                /\ q.log = <<"readBody", "verify">>
                /\ ~q.parsed
                /\ q.rlc = RlIdle /\ q.d = HfoOff /\ q.fwd = "off"

C6_Witness ==
    \E r \in Reqs :
        /\ req[r].pc = "done" /\ req[r].resp = Unauthorized
        /\ req[r].in.topic = "app/uninstalled"
        /\ uninstalledKv = KvPutForever(EmptyKv, OtherShop, Marker)

\* C7: a request whose method is not POST is answered 405; a POST request
\* with one of the five headers missing or empty is answered 400; in both
\* cases the handler has read no body, verified nothing, touched no store.
C7_MethodAndHeaders ==
    \A r \in Reqs :
        LET q == req[r]
            lacking ==
                \/ \E h \in {q.in.shop, q.in.topic, q.in.webhookId, q.in.apiVersion} :
                       h \in {Null, ""}
                \/ q.in.hmac \in {NullSeq, <<>>}
        IN  q.pc # "new" =>
                /\ q.in.method # "POST" =>
                       q.pc = "done" /\ q.resp.status = 405 /\ q.log = <<>>
                /\ (q.in.method = "POST" /\ lacking) =>
                       q.pc = "done" /\ q.resp.status = 400 /\ q.log = <<>>

C7_Witness ==
    \E r1, r2 \in Reqs :
        /\ req[r1].pc = "done" /\ req[r1].in.method = "POST"
        /\ req[r1].in.apiVersion = Null /\ req[r1].resp.status = 400
        /\ req[r2].pc = "done" /\ req[r2].in.method = "GET"
        /\ req[r2].in.shop = Null /\ req[r2].resp.status = 405

(***************************************************************************)
(* Further properties of allowShop (SpecRL)                                *)
(***************************************************************************)

\* C11: the step in which a call of allowShop returns without having met a
\* store error is its one write: it leaves under rl:<shop> the record
\* {t: nowSec, tokens: newTokens} with the call's TTL, and the other keys as
\* they were, whether the record was absent, the call allowed or denied.
C11_OneWrite ==
    [][\A s \in RlSlots :
          (rl[s].pc # "done" /\ rl'[s].pc = "done" /\ ~RlFailed(rl'[s])) =>
              LET c == rl'[s]
                  key == "rl:" \o c.shop
              IN  /\ rl[s].pc = "put" /\ rl[s].puts = 0 /\ c.puts = 1 /\ c.gets = 1
                  /\ c.newTokens = c.tokens - (IF c.result THEN TokenUnit ELSE 0)
                  /\ DOMAIN idempoKv' = DOMAIN idempoKv \cup {key}
                  /\ idempoKv'[key] =
                         [val |-> [kind |-> "rec", t |-> c.nowSec,
                                   tokens |-> c.newTokens],
                          hasExp |-> TRUE, exp |-> clock + c.ttl]
                  /\ \A k \in DOMAIN idempoKv \ {key} : idempoKv'[k] = idempoKv[k]
      ]_vars

C11_Witness ==
    \E s \in RlSlots :
        /\ rl[s].pc = "done" /\ ~RlFailed(rl[s]) /\ rl[s].puts = 1
        /\ rl[s].raw = Absent /\ rl[s].result
        /\ \E s2 \in RlSlots :
               /\ rl[s2].pc = "done" /\ ~RlFailed(rl[s2]) /\ rl[s2].puts = 1
               /\ ~rl[s2].result
               /\ KvGet(idempoKv, RlKey(RlShop), clock) = KvVal("rec", rl[s2].nowSec, 0)

(***************************************************************************)
(* Idempotency (Spec)                                                      *)
(***************************************************************************)

\* How often the handler of q called the downstream service.
Forwards(q) == Cardinality({i \in 1..Len(q.log) : q.log[i] = "fetch"})

FreshAgainAfterRetention ==
    /\ req[1].reserved /\ req[1].reservedAt = 0
    /\ req[2].in = req[1].in
    /\ req[2].checkedAt = 72 * 3600
    /\ ~req[2].seen /\ req[2].reserved

\* C14: once the forward function of a delivery has had a 200 from the
\* downstream service and its commit write has succeeded, the record that the
\* idempotency check reads for the delivery's key holds the response body.
C14_CommitReplacesMarker ==
    \A r \in Reqs :
        LET q == req[r]
        IN  (q.fwd = "resolved" /\ q.down.status = 200
                /\ clock - q.reservedAt < 72 * 3600)
            => KvGet(idempoKv, IdemKey(q.in), clock) = LedgerRecord

(***************************************************************************)
(* Store failures and the tenant gate (Spec)                               *)
(***************************************************************************)

\* C15: a verified delivery with a JSON body that is answered without having
\* been found disabled, rate limited or seen before has been forwarded, also
\* when its tenant read, its idempotency read or its reservation failed.
C15_StoreFailureForwards ==
    \A r \in Reqs :
        LET q == req[r]
        IN  (q.pc = "done" /\ q.in = BaseRequest /\ q.hmacValid
                /\ ~q.disabled /\ ~q.seen /\ q.resp.status # 429)
            => Issued(q, "fetch")

\* C16: a request with topic app/uninstalled whose signature verified issues
\* the put of the disabled marker and nothing after it: no tenant read, no
\* call of allowShop, no idempotency read or reservation, no parse, no
\* dispatch; it is answered 200, and unless the put failed the marker of its
\* shop is there, without expiry.
C16_UninstallShortCircuit ==
    \A r \in Reqs :
        LET q == req[r]
        IN  (q.hmacValid /\ q.in.topic = "app/uninstalled") =>
                /\ q.log = <<"readBody", "verify", "uninstPut">>
                /\ q.rlc = RlIdle /\ q.d = HfoOff /\ q.fwd = "off"
                /\ ~q.parsed /\ q.checkedAt = -1 /\ q.reservedAt = -1
                /\ q.pc \in {"uninstPut", "done"}
                /\ q.pc = "done" =>
                       /\ q.resp.status = 200
                       /\ ~q.caught =>
                              /\ q.in.shop \in DOMAIN uninstalledKv
                              /\ uninstalledKv[q.in.shop] =
                                     [val |-> Marker, hasExp |-> FALSE, exp |-> 0]

C16_Witness ==
    \E r \in Reqs :
        /\ req[r].pc = "done" /\ req[r].hmacValid /\ ~req[r].caught
        /\ req[r].in.topic = "app/uninstalled"
        /\ req[r].in.shop \in DOMAIN uninstalledKv
        /\ req[r].resp = Ok

\* C17: when the tenant read of a verified request whose topic is not
\* app/uninstalled settles and the tenant's marker is there, the request is
\* answered 200 in that step: allowShop has not been called, the idempotency
\* store has not been read or written, no dispatch has begun.
C17_DisabledShortCircuit ==
    [][\A r \in Reqs :
          (/\ req[r].pc = "uninstGet" /\ req'[r].pc # "uninstGet"
           /\ KvGet(uninstalledKv, req[r].in.shop, clock) # Absent) =>
              /\ req'[r].pc = "done"
              /\ req'[r].resp.status = 200
              /\ req'[r].log = <<"readBody", "verify", "uninstGet">>
              /\ req'[r].rlc = RlIdle /\ req'[r].d = HfoOff /\ req'[r].fwd = "off"
              /\ req'[r].checkedAt = -1 /\ req'[r].reservedAt = -1
              /\ idempoKv' = idempoKv /\ ledgerKv' = ledgerKv
      ]_vars

C17_Witness ==
    \E r \in Reqs :
        /\ req[r].pc = "done" /\ req[r].disabled /\ req[r].in.shop = RlShop
        /\ req[r].hmacValid /\ req[r].resp = Ok
        /\ req[r].log = <<"readBody", "verify", "uninstGet">>

C19_DeniedIsRejected ==
    \A r \in Reqs :
        LET q == req[r]
        IN  (q.rlc.pc = "done" /\ ~q.rlc.result) =>
                /\ q.pc = "done"
                /\ q.resp.status = 429
                /\ ~Issued(q, "idemGet") /\ ~Issued(q, "idemPut")
                /\ ~Issued(q, "fetch")
                /\ q.d = HfoOff /\ q.fwd = "off"
                /\ q.checkedAt = -1 /\ q.reservedAt = -1

C19_Witness ==
    \E r \in Reqs :
        /\ req[r].pc = "done" /\ req[r].resp = RateLimited
        /\ req[r].rlc.tokens < TokenUnit /\ ~req[r].rlc.result

\* C20: a request answered 405, 400 or 401 has written nothing: it has issued
\* no bucket write, no reservation, no marker write and no downstream call.
C20_ClientErrorNoEffects ==
    \A r \in Reqs :
        LET q == req[r]
        IN  (q.pc = "done" /\ q.resp.status \in {400, 401, 405}) =>
                /\ ~Issued(q, "rlPut") /\ ~Issued(q, "idemPut")
                /\ ~Issued(q, "uninstPut") /\ ~Issued(q, "fetch")
                /\ ~q.reserved /\ q.d = HfoOff

(***************************************************************************)
(* The comparison of verifyShopifyHmacRaw (SpecHmac)                       *)
(***************************************************************************)

\* C30: when the call reaches the comparison (header, secret and body not
\* empty, no failure of the primitives, the header decoding to as many bytes
\* as the MAC has), the loop makes one step for every byte of the MAC,
\* whether the signature matches or differs, at whatever position.
C30_EveryByteCompared ==
    (/\ hm.pc = "done" /\ hm.fault = "none"
     /\ hm.secret \notin {<<>>, NullSeq}
     /\ hm.rawBody # <<>>
     /\ hm.headerB64 \notin {<<>>, NullSeq}
     /\ Len(base64ToBytes(hm.headerB64).bytes) = MacLen)
    => hm.steps = MacLen

C30_Witness ==
    /\ hm.pc = "done" /\ hm.fault = "none" /\ hm.kind = "flipfirst"
    /\ hm.secret = hm.signSecret /\ hm.rawBody = hm.signedBody
    /\ ~hm.value /\ hm.steps = MacLen

(***************************************************************************)
(* The degraded path of handleFailOpen (SpecFailOpen)                      *)
(***************************************************************************)

\* The two reasons of a degraded response.
TimeoutReason(timeoutMs) ==
    <<"Scoring", "API", "timeout", "after", ToString(timeoutMs) \o "ms">>
GenericReason == <<"Scoring", "API", "error", "-", "fail-open">>

\* C23: the reason of a degraded response is the timeout text exactly when
\* the deadline timer fired before the forward function settled, and the
\* generic upstream-error text when the forward function rejected or threw,
\* whatever it rejected with.
C23_ReasonTellsTriggers ==
    (fo.d.pc = "done" /\ fo.d.outcome = "degraded") =>
        /\ fo.cause = "timer" =>
               fo.d.resp.body.reason = TimeoutReason(fo.d.timeoutMs)
        /\ fo.cause = "forward" =>
               fo.d.resp.body.reason = GenericReason

\* C25: when the put of the degraded-event record fails, handleFailOpen does
\* not throw, and it returns the response it returns when the put succeeds:
\* status 200, the fail-open body with the reason of the error caught and the
\* call's correlation id, and the four headers.
C25_PutFailureChangesNothing ==
    (fo.d.pc = "done" /\ fo.d.outcome = "degraded") =>
        /\ ~fo.d.threw
        /\ fo.d.resp.status = 200
        /\ fo.d.resp.body =
               [kind |-> "failopen", text |-> "", advice |-> "APPROVE",
                degraded |-> TRUE,
                reason |-> DegradedReason(fo.d.err, fo.d.timeoutMs),
                cid |-> fo.d.cid]
        /\ fo.d.resp.hdrs =
               {"Content-Type=application/json", "X-Correlation-ID=" \o fo.d.cid,
                "X-Degraded=true", "X-Processing-Time"}
        /\ ~fo.d.resp.used

C25_Witness ==
    /\ fo.d.pc = "done" /\ fo.d.outcome = "degraded" /\ fo.d.putFailed
    /\ degradedKv = EmptyKv
    /\ ~fo.d.threw /\ fo.d.resp.status = 200 /\ fo.d.resp.body.degraded
    /\ "X-Degraded=true" \in fo.d.resp.hdrs

\* C24: a call of handleFailOpen that ended DEGRADED has attempted the put of
\* the degraded-event record exactly once, a call that ended SUCCEEDED never
\* (also when its timer fires or its forward function settles afterwards);
\* every record is stored under degraded:<correlation id of a call> and
\* expires 7 days after it was written.
C24_RecordOnlyWhenDegraded ==
    /\ (fo.d.pc = "done" /\ fo.d.outcome = "degraded") => fo.d.puts = 1
    /\ fo.d.outcome = "succeeded" => fo.d.puts = 0
    /\ fo.d.pc \in {"race", "degradedPut"} => fo.d.puts = 0
    /\ (fo.d.outcome = "succeeded" /\ fo.calls = 1) => degradedKv = EmptyKv
    /\ \A k \in DOMAIN degradedKv :
           /\ \E i \in 1..fo.calls : k = "degraded:f" \o ToString(i)
           /\ degradedKv[k].hasExp
           /\ degradedKv[k].exp = clock + 7 * 86400

C24_Witness ==
    /\ fo.d.pc = "done" /\ fo.d.outcome = "degraded" /\ fo.d.puts = 1
    /\ ~fo.d.putFailed
    /\ DegradedKey(fo.d) \in DOMAIN degradedKv

\* A call that ended SUCCEEDED and whose timer fired afterwards.
SucceededThenTimer ==
    /\ fo.d.outcome = "succeeded" /\ fo.d.timer = "fired" /\ fo.d.puts = 0

(***************************************************************************)
(* Overlapping calls of allowShop (SpecRL)                                 *)
(***************************************************************************)

\* The calls that have read the bucket and did not go through the catch block.
RlRead == {s \in RlSlots : rl[s].pc \in {"put", "done"} /\ rl[s].gets = 1
                             /\ ~RlFailed(rl[s])}

\* The number of calls that returned true so far.
RlAdmitted == Cardinality({i \in 1..Len(rlHist.results) : rlHist.results[i]})

\* C27: the read and the write of allowShop are two steps with nothing that
\* ties them together. Two calls that read the same bucket state at the same
\* nowSec take the same decision and write the same next record, which, when
\* they are allowed, is that state less one token, not two. From an absent
\* record, without store failure and elapsed time, more than burst calls are
\* admitted only if calls overlapped (and then they are: C27_Witness).
C27_OverlapUnderEnforces ==
    /\ \A s1, s2 \in RlRead :
           (rl[s1].raw = rl[s2].raw /\ rl[s1].nowSec = rl[s2].nowSec) =>
               /\ rl[s1].allowed = rl[s2].allowed
               /\ RlNext(rl[s1]) = RlNext(rl[s2])
               /\ rl[s1].allowed =>
                      RlNext(rl[s1]).tokens = rl[s1].tokens - TokenUnit
    /\ (/\ rlHist.first = Absent /\ ~rlHist.failed
        /\ Cardinality(rlHist.nows) <= 1
        /\ RlAdmitted * TokenUnit > rlHist.cfg.burst)
       => rlHist.overlap

\* Two overlapping calls have read the absent record, both returned true and
\* both put burst - 1 tokens: with a burst of one token, two calls were
\* admitted at one nowSec and the record left behind counts one.
C27_Witness ==
    /\ rlHist.first = Absent /\ ~rlHist.failed /\ rlHist.overlap
    /\ Cardinality(rlHist.nows) = 1
    /\ \A s \in RlSlots :
           /\ rl[s].pc = "done" /\ rl[s].raw = Absent /\ rl[s].result
           /\ rl[s].newTokens = rl[s].burst - TokenUnit
    /\ RlAdmitted * TokenUnit > rlHist.cfg.burst
    /\ KvGet(idempoKv, RlKey(RlShop), clock).tokens
           = rlHist.cfg.burst - TokenUnit

(***************************************************************************)
(* The end of the fetch handler (Spec)                                     *)
(***************************************************************************)

\* C21: an exception at any stage of the handler (the read of the body, a
\* store operation of the tenant or idempotency stage, the read of the
\* dispatcher's response) ends the request with a response of status 200;
\* the promise of fetch() never rejects.
C21_CaughtAnswers200 ==
    \A r \in Reqs :
        /\ req[r].pc # "rejected"
        /\ req[r].caught =>
               /\ req[r].pc = "done"
               /\ req[r].resp.status = 200
               /\ LastIssued(req[r]) \in
                      {"readBody", "uninstPut", "uninstGet", "idemGet",
                       "idemPut", "text"}

\* One request ended in the catch block by a store operation before the
\* dispatch, the other by the read of the dispatcher's response.
C21_Witness ==
    \E a, b \in Reqs :
        /\ req[a].pc = "done" /\ req[a].caught /\ req[a].resp.status = 200
        /\ LastIssued(req[a]) = "idemGet"
        /\ req[b].pc = "done" /\ req[b].caught /\ req[b].resp.status = 200
        /\ LastIssued(req[b]) = "text"

\* C22: when the downstream service answered 200 and the dispatch ended
\* SUCCEEDED, the caller receives status 200, the downstream body, and the
\* headers X-Correlation-ID and X-Processing-Time.
C22_SuccessPassedThrough ==
    \A r \in Reqs :
        (/\ req[r].pc = "done" /\ req[r].d.pc = "done"
         /\ req[r].d.outcome = "succeeded" /\ req[r].d.resp.status = 200)
        => /\ req[r].resp.status = 200
           /\ req[r].resp.body = req[r].down.body
           /\ "X-Correlation-ID=" \o req[r].cid \in req[r].resp.hdrs
           /\ "X-Processing-Time" \in req[r].resp.hdrs

\* C29: the response the caller receives for a request whose dispatch ended
\* DEGRADED carries X-Degraded: true.
C29_DegradedIsMarked ==
    \A r \in Reqs :
        (/\ req[r].pc = "done" /\ req[r].d.pc = "done"
         /\ req[r].d.outcome = "degraded")
        => "X-Degraded=true" \in req[r].resp.hdrs

(***************************************************************************)
(* A request from its admission to its response (SpecLive)                 *)
(***************************************************************************)

\* C26: a request that was admitted (handleFailOpen was called for it) gets
\* to the end: its dispatch ends SUCCEEDED or DEGRADED and the handler
\* returns a response, also when fetch() never settles.
C26_AdmittedTerminates ==
    (req[1].pc = "dispatch") ~>
        (/\ req[1].pc = "done"
         /\ req[1].d.pc = "done"
         /\ req[1].d.outcome \in {"succeeded", "degraded"})

\* The request was answered while its fetch() is still pending.
C26_Witness ==
    /\ req[1].pc = "done" /\ req[1].fwd = "fetch"
    /\ req[1].d.pc = "done" /\ req[1].d.outcome = "degraded"
    /\ req[1].d.timer = "fired"
    /\ req[1].resp.status = 200

\* C28: the JSON sent downstream has shop, topic, webhook_id and api_version
\* as in the request's headers, the handler's correlation id as
\* correlation_id, and the server's time as triggered_at, whatever fields the
\* verified body has.
C28_ForwardedIdentity ==
    Issued(req[1], "fetch") =>
        /\ req[1].sent.shop = req[1].in.shop
        /\ req[1].sent.topic = req[1].in.topic
        /\ req[1].sent.webhook_id = req[1].in.webhookId
        /\ req[1].sent.api_version = req[1].in.apiVersion
        /\ req[1].sent.correlation_id = req[1].cid
        /\ req[1].sent.triggered_at = "now"

(***************************************************************************)
(* The race of handleFailOpen (SpecFailOpen)                               *)
(***************************************************************************)

\* C31: the outcome of a call of handleFailOpen is fixed by the first of the
\* forward function and the timer to settle. A call whose forward function
\* resolved first returns the response it resolved with, whatever its status;
\* a call whose timer fired or whose forward function rejected first returns
\* the degraded response; no step of the same call changes an outcome once
\* it is fixed, nor the response once it is returned.
C31_OutcomeFixedOnce ==
    [][/\ (fo.d.outcome # "pending" /\ fo'.calls = fo.calls) =>
              /\ fo'.d.outcome = fo.d.outcome
              /\ fo'.d.err = fo.d.err
              /\ fo.d.pc = "done" => fo'.d.resp = fo.d.resp
       /\ (fo'.d.pc = "done" /\ fo'.d.outcome = "succeeded") =>
              /\ fo'.cause = "resolved"
              /\ fo'.d.resp = fo'.res
       /\ (fo'.d.pc = "done" /\ fo'.d.outcome = "degraded") =>
              /\ fo'.cause \in {"timer", "forward"}
              /\ fo'.d.resp.status = 200
              /\ fo'.d.resp.body.degraded
              /\ fo'.d.resp.body.kind = "failopen"]_vars

\* The timer won, the degraded response was returned, and the forward
\* function resolved afterwards: the response is still the degraded one.
C31_Witness ==
    /\ fo.cause = "timer" /\ fo.fwd = "resolved" /\ fo.res.status = 200
    /\ fo.d.pc = "done" /\ fo.d.outcome = "degraded"
    /\ fo.d.resp.body.degraded /\ fo.d.resp # fo.res

\* The forward function won with a response of status 500, which is
\* returned as it is, and the timer fired afterwards.
SucceededWith500 ==
    /\ fo.cause = "resolved" /\ fo.d.outcome = "succeeded"
    /\ fo.d.resp = fo.res /\ fo.res.status = 500 /\ fo.d.timer = "fired"

(***************************************************************************)
(* Reservation and concurrent deliveries (Spec)                            *)
(***************************************************************************)

\* Two requests carry the same idempotency key.
SameKey(a, b) == IdemKey(a.in) = IdemKey(b.in)

RlRecords ==
    (IF RlKey(RlShop) \in DOMAIN idempoKv
     THEN {idempoKv[RlKey(RlShop)].val} ELSE {})
    \cup {RlNext(rl[s]) : s \in {x \in RlSlots : rl[x].pc = "put"}}

\* C33: starting from an absent record, after any calls of allowShop with one
\* burst >= 1 and one refill rate >= 0, overlapping or not, with store
\* failures or not and whatever time passes between them, every bucket record
\* written has 0 <= tokens <= burst.
C33_TokensInRange ==
    rlHist.first = Absent =>
        \A rec \in RlRecords :
            /\ rec.kind = "rec"
            /\ 0 <= rec.tokens
            /\ rec.tokens <= rlHist.cfg.burst

\* A call found more tokens than burst after the refill and cut them to
\* burst; it wrote burst - 1.
C33_Witness ==
    /\ rlHist.first = Absent
    /\ \E s \in RlSlots :
           /\ rl[s].pc = "done" /\ ~RlFailed(rl[s]) /\ rl[s].raw.kind = "rec"
           /\ rl[s].raw.tokens + (rl[s].nowSec - rl[s].raw.t) * rl[s].refill
                  > rl[s].burst
           /\ rl[s].tokens = rl[s].burst
           /\ idempoKv[RlKey(RlShop)].val.tokens = rl[s].burst - TokenUnit

\* The bucket was emptied: a record with no token is in the store and a
\* call was denied.
BucketEmptied ==
    /\ rlHist.first = Absent
    /\ RlKey(RlShop) \in DOMAIN idempoKv
    /\ idempoKv[RlKey(RlShop)].val.tokens = 0
    /\ \E i \in 1..Len(rlHist.results) : ~rlHist.results[i]

(***************************************************************************)
(* The commit of the forward function (Spec)                               *)
(***************************************************************************)

\* The forward function of q has written the response body to the ledger.
Committed(q) == Issued(q, "ledgerPut") /\ q.fwd = "resolved"

\* C34: the response body is committed only for a request whose dispatch
\* ended SUCCEEDED; for a dispatch that ended DEGRADED no commit is written,
\* then or later.
C34_CommitOnlyOnSuccess ==
    \A r \in Reqs :
        Committed(req[r]) => req[r].d.outcome = "succeeded"

(***************************************************************************)
(* Retries of a delivery that was not scored (Spec)                        *)
(***************************************************************************)

\* C35: the reservation of a delivery outlives a dispatch that ended
\* DEGRADED and a failure of the handler after the reservation. A retry of
\* the same shop, topic and webhook id that arrives after the first was
\* answered, and whose idempotency read settles less than 72 hours after
\* the reservation, is answered with the replay response and is not
\* forwarded.
C35_ReservationKept ==
    \A r1, r2 \in Reqs :
        LET a == req[r1]
            b == req[r2]
        IN  (/\ r1 \in b.after /\ a.pc = "done" /\ SameKey(a, b)
             /\ a.reserved
             /\ a.d.outcome = "degraded" \/ a.caught
             /\ b.pc = "done" /\ ~b.caught /\ Issued(b, "idemGet")
             /\ b.checkedAt - a.reservedAt < 72 * 3600)
            => /\ b.resp = Replay
               /\ Forwards(b) = 0
               /\ KvGet(idempoKv, IdemKey(a.in), b.checkedAt) = Marker

\* The first delivery timed out downstream at time 0; its retry is read as
\* a duplicate in the last second of the retention.
C35_Witness ==
    /\ req[1].pc = "done" /\ req[1].reserved /\ req[1].reservedAt = 0
    /\ req[1].d.outcome = "degraded" /\ req[1].fwd = "fetch"
    /\ req[2].pc = "done" /\ 1 \in req[2].after /\ SameKey(req[1], req[2])
    /\ req[2].checkedAt = 72 * 3600 - 1
    /\ req[2].resp = Replay /\ Forwards(req[2]) = 0

\* The handler of the first delivery failed after the reservation (in the
\* read of the dispatcher's response); its retry is answered as a duplicate.
RetryAfterHandlerFailure ==
    /\ req[1].pc = "done" /\ req[1].reserved /\ req[1].caught
    /\ req[2].pc = "done" /\ 1 \in req[2].after /\ SameKey(req[1], req[2])
    /\ req[2].resp = Replay /\ Forwards(req[2]) = 0

(***************************************************************************)
(* The rate limiter and duplicates (Spec)                                  *)
(***************************************************************************)

\* Another request has reserved the key of q, less than 72 hours ago.
ReservedByOther(r) ==
    \E r2 \in Reqs \ {r} :
        /\ SameKey(req[r2], req[r]) /\ req[r2].reserved
        /\ clock - req[r2].reservedAt < 72 * 3600

\* C36: allowShop is called, and has returned true, before the idempotency
\* store is read. Every request that gets to the rate limiter, a duplicate
\* included, takes a token when the bucket has one and writes the bucket
\* back; one that finds the bucket empty is answered 429 without any
\* idempotency read, also when its key is reserved.
C36_LimiterBeforeIdempotency ==
    \A r \in Reqs :
        LET q == req[r]
        IN  /\ Issued(q, "idemGet") =>
                   /\ q.rlc.pc = "done" /\ q.rlc.result
                   /\ Issued(q, "rlGet")
            /\ (q.rlc.pc = "done" /\ ~RlFailed(q.rlc)) =>
                   /\ q.rlc.puts = 1
                   /\ q.rlc.tokens >= TokenUnit =>
                          /\ q.rlc.result
                          /\ q.rlc.newTokens = q.rlc.tokens - TokenUnit
                   /\ q.rlc.tokens < TokenUnit =>
                          /\ q.pc = "done" /\ q.resp = RateLimited
                          /\ ~Issued(q, "idemGet")
            /\ (q.pc = "done" /\ q.resp = Replay /\ ~RlFailed(q.rlc)) =>
                   q.rlc.newTokens = q.rlc.tokens - TokenUnit

\* A duplicate of a reserved key met an empty bucket and was answered 429.
C36_Witness ==
    \E r \in Reqs :
        /\ ReservedByOther(r) /\ req[r].after # {}
        /\ req[r].hmacValid /\ req[r].pc = "done"
        /\ req[r].rlc.tokens < TokenUnit /\ ~RlFailed(req[r].rlc)
        /\ req[r].resp = RateLimited /\ ~Issued(req[r], "idemGet")

\* A duplicate was answered with the replay response and took a token.
DuplicateTookToken ==
    \E r \in Reqs :
        /\ req[r].pc = "done" /\ req[r].resp = Replay
        /\ ~RlFailed(req[r].rlc) /\ req[r].rlc.puts = 1
        /\ req[r].rlc.newTokens = req[r].rlc.tokens - TokenUnit

(***************************************************************************)
(* What the signature covers (Spec)                                        *)
(***************************************************************************)

\* The verification of q has settled.
Verified(q) == Issued(q, "verify") /\ q.pc # "verify"

\* C37: whether a POST request with its five headers is answered 401 depends
\* on its body, its signature header and the secret alone. Of two requests
\* with the same body and signature, verified without a failure of the
\* primitives, both are accepted or both are answered 401, whatever their
\* shop, topic, webhook id and api version; the decision is that of
\* verifyShopifyHmacRaw on body and signature.
C37_DecisionFromBodyAndSignature ==
    [][\A r1, r2 \in Reqs :
          LET a == req'[r1]
              b == req'[r2]
          IN  /\ (req[r1].pc = "verify" /\ a.pc # "verify" /\ ~a.faulted) =>
                     a.hmacValid =
                         verifyShopifyHmacRaw(a.in.body, a.in.hmac, AppSecret,
                                              "none").value
              /\ (Verified(a) /\ ~a.faulted) =>
                     /\ (a.pc = "done" /\ a.resp = Unauthorized) <=> ~a.hmacValid
                     /\ (/\ Verified(b) /\ ~b.faulted
                         /\ b.in.body = a.in.body /\ b.in.hmac = a.in.hmac)
                        => a.hmacValid = b.hmacValid
      ]_vars

\* A body and its signature were accepted for one shop's order and for an
\* app/uninstalled request, which wrote the disabled marker.
C37_Witness ==
    \E r1, r2 \in Reqs :
        /\ req[r1].in.body = req[r2].in.body
        /\ req[r1].in.hmac = req[r2].in.hmac
        /\ req[r1].in.topic = "orders/create" /\ req[r1].hmacValid
        /\ req[r2].in.topic = "app/uninstalled" /\ req[r2].hmacValid
        /\ req[r2].pc = "done" /\ req[r2].resp = Ok
        /\ RlShop \in DOMAIN uninstalledKv

\* The same body and signature were accepted under two shops.
AcceptedForTwoShops ==
    \E r1, r2 \in Reqs :
        /\ req[r1].in.body = req[r2].in.body
        /\ req[r1].in.hmac = req[r2].in.hmac
        /\ req[r1].in.shop # req[r2].in.shop
        /\ req[r1].hmacValid /\ req[r2].hmacValid

(***************************************************************************)
(* The keys of the shared store (SpecKeys)                                 *)
(***************************************************************************)

\* C38: two different triples of non-empty shop, topic and webhook id have
\* different idempotency keys, and no idempotency key is the bucket key of a
\* tenant.
C38_KeysDistinct ==
    keyCheck.pc = "built" =>
        /\ keyCheck.a # keyCheck.b => keyCheck.keyA # keyCheck.keyB
        /\ keyCheck.keyA # keyCheck.rlKey
        /\ keyCheck.keyB # keyCheck.rlKey

(***************************************************************************)
(* The correlation ids of a degraded request (Spec)                        *)
(***************************************************************************)

\* C39: for a request whose dispatch ended DEGRADED, the X-Correlation-ID of
\* the response returned to the caller, the correlation_id of its body, the
\* key of the degraded-event record and the correlation_id sent downstream
\* all carry one id.
C39_OneCorrelationId ==
    \A r \in Reqs :
        LET q == req[r]
        IN  (q.pc = "done" /\ q.d.pc = "done" /\ q.d.outcome = "degraded"
             /\ ~q.caught) =>
                \E id \in {q.sent.correlation_id} :
                    /\ "X-Correlation-ID=" \o id \in q.resp.hdrs
                    /\ q.resp.body.cid = id
                    /\ DegradedKey(q.d) = "degraded:" \o id

(***************************************************************************)
(* The buckets of other tenants (SpecRL)                                   *)
(***************************************************************************)

\* C40: the calls of allowShop for one shop read and write the key rl:<shop>
\* and nothing else: the bucket record of the other tenant stays as it was,
\* and the store holds no key but the two bucket keys.
C40_OtherBucketUntouched ==
    [][/\ RlKey(OtherShop) \in DOMAIN idempoKv'
       /\ idempoKv'[RlKey(OtherShop)] = idempoKv[RlKey(OtherShop)]
       /\ RlKey(OtherShop) # RlKey(RlShop)
       /\ DOMAIN idempoKv' \subseteq {RlKey(RlShop), RlKey(OtherShop)}
       /\ \A s \in RlSlots :
              rl'[s].pc # "idle" => rl'[s].shop = RlShop
      ]_vars

\* The calls for the shop emptied its bucket and were denied, while the
\* other tenant's record still has what it had.
C40_Witness ==
    /\ RlKey(RlShop) \in DOMAIN idempoKv
    /\ idempoKv[RlKey(RlShop)].val.kind = "rec"
    /\ idempoKv[RlKey(RlShop)].val.tokens = 0
    /\ \E i \in 1..Len(rlHist.results) : ~rlHist.results[i]
    /\ rlHist.first = Absent
    /\ idempoKv[RlKey(OtherShop)] =
           Entry(KvVal("rec", 0, rlHist.cfg.burst - TokenUnit), rlHist.cfg.ttl)

====
